---------------------------- MODULE Spec2Model ----------------------------
(***************************************************************************)
(* NeuroVA rendering pipeline: the WGSL programs of the four render modes  *)
(* (Waveform-SDF, Waveform-Direct, Column-Glow, Organic-Noise), the        *)
(* full-screen stage they share, and the per-frame data they read.         *)
(*                                                                         *)
(* Numbers.  An f32 is modelled by the real number it stands for: an exact *)
(* rational <<n, d>> (d > 0, lowest terms), or, for the result of a square *)
(* root that is not rational, the surd <<n, d, 1>> standing for sqrt(n/d). *)
(* Comparisons, min, max and clamp are exact on both forms.  A u32 keeps   *)
(* its 32 bits as two 16-bit limbs <<hi, lo>>, so that the wrap of         *)
(* 0u - 1u is the code's.  A float division by zero and an out-of-bounds   *)
(* load yield an indeterminate value: a nondeterministic choice.  Only     *)
(* smoothstep rounds: its interpolant and its result are rounded down to a *)
(* multiple of 1/Precision, a surd argument first to 1/SqrtScale.          *)
(*                                                                         *)
(* Frontend.  The React components AgiInterface and MetricsDisplay: their  *)
(* state, their event handlers and the requests and the socket they        *)
(* drive.  The state updates a handler makes before it awaits or returns   *)
(* are applied in one render.                                              *)
(***************************************************************************)
EXTENDS Integers, Sequences, FiniteSets, TLC

VARIABLES
    uniforms,   \* the uniform block bound at group 0, binding 0
    eeg_data,   \* the waveform storage buffer bound at group 0, binding 1
    columns,    \* the units storage buffer bound at group 0, binding 1
    call,       \* the running shader invocation: entry point, inputs, locals
    out,        \* the outputs of the invocations of the current draw, by invocation
    samples,    \* host side: the samples the simulation has produced so far
    frame,      \* host side: the frame loop's position and what it published
    status,     \* AgiInterface: the connection status shown
    messages,   \* AgiInterface: the message log
    input,      \* AgiInterface: the text of the input field
    fetches,    \* AgiInterface: the requests in flight and the settled ones, in order
    submits,    \* AgiInterface: the submit events handleSubmit has handled
    metrics,    \* MetricsDisplay: the metrics last parsed, or null
    isConnected,\* MetricsDisplay: the connection flag
    ws,         \* MetricsDisplay: the WebSocket the effect created
    rendered    \* MetricsDisplay: what the latest render returned

shaderVars == <<uniforms, eeg_data, columns, call, out>>
hostVars == <<samples, frame>>
pipelineVars == <<uniforms, eeg_data, columns, call, out, samples, frame>>
agiVars == <<status, messages, input, fetches, submits>>
metricsVars == <<metrics, isConnected, ws, rendered>>
frontendVars == <<status, messages, input, fetches, submits, metrics, isConnected, ws, rendered>>
vars == <<uniforms, eeg_data, columns, call, out, samples, frame,
          status, messages, input, fetches, submits, metrics, isConnected, ws, rendered>>

---------------------------------------------------------------------------
(* Integers *)

Abs(n) == IF n < 0 THEN -n ELSE n

RECURSIVE Gcd(_, _)
Gcd(a, b) == IF b = 0 THEN a ELSE Gcd(b, a % b)

RECURSIVE ISqrtIn(_, _, _)
\* the integer square root of n, searched in lo..hi (lo*lo <= n < (hi+1)*(hi+1))
ISqrtIn(n, lo, hi) ==
    IF lo = hi THEN lo
    ELSE LET mid == (lo + hi + 1) \div 2
         IN IF mid * mid <= n THEN ISqrtIn(n, mid, hi) ELSE ISqrtIn(n, lo, mid - 1)

ISqrt(n) == ISqrtIn(n, 0, IF n < 46340 * 46340 THEN 46339 ELSE 46340)

IsSquare(n) == ISqrt(n) * ISqrt(n) = n

---------------------------------------------------------------------------
(* Rationals *)

Rat(n, d) ==
    LET s == IF d < 0 THEN -1 ELSE 1
        g == Gcd(Abs(n), Abs(d))
    IN <<(s * n) \div g, (s * d) \div g>>

R(n) == <<n, 1>>
Zero == R(0)
One == R(1)
Half == Rat(1, 2)

RFloor(a) == a[1] \div a[2]
\* sums over the least common denominator and products cancelled crosswise
\* keep the intermediate integers small
RAdd(a, b) ==
    LET g == Gcd(a[2], b[2])
    IN Rat(a[1] * (b[2] \div g) + b[1] * (a[2] \div g), (a[2] \div g) * b[2])
RSub(a, b) == RAdd(a, <<-b[1], b[2]>>)
RMul(a, b) ==
    LET g1 == Gcd(Abs(a[1]), b[2])
        g2 == Gcd(Abs(b[1]), a[2])
    IN Rat((a[1] \div g1) * (b[1] \div g2), (a[2] \div g2) * (b[2] \div g1))
RQuot(a, b) == RMul(a, Rat(b[2], b[1]))
RNeg(a) == <<-a[1], a[2]>>
\* compared by integer part first, so that a large value never overflows
RLeq(a, b) ==
    LET fa == RFloor(a)
        fb == RFloor(b)
    IN IF fa # fb THEN fa < fb
       ELSE (a[1] - fa * a[2]) * b[2] <= (b[1] - fb * b[2]) * a[2]
RLess(a, b) == ~RLeq(b, a)

---------------------------------------------------------------------------
(* Reals: a rational, or the surd <<n, d, 1>> = sqrt(n/d) *)

IsSurd(x) == Len(x) = 3
Radicand(x) == <<x[1], x[2]>>

\* sqrt of a rational q >= 0: exact
Sqrt(q) ==
    IF IsSquare(q[1]) /\ IsSquare(q[2]) THEN <<ISqrt(q[1]), ISqrt(q[2])>>
    ELSE <<q[1], q[2], 1>>

\* every surd of the model is below this; a rational at or above it is larger
SurdCap == 30000

Leq(a, b) ==
    CASE ~IsSurd(a) /\ ~IsSurd(b) -> RLeq(a, b)
      [] IsSurd(a) /\ IsSurd(b) -> RLeq(Radicand(a), Radicand(b))
      [] IsSurd(a) /\ ~IsSurd(b) ->
            IF RLeq(b, Zero) THEN FALSE
            ELSE IF RLeq(R(SurdCap), b) THEN TRUE
            ELSE RLeq(Radicand(a), RMul(b, b))
      [] OTHER ->
            IF RLeq(a, Zero) THEN TRUE
            ELSE IF RLeq(R(SurdCap), a) THEN FALSE
            ELSE RLeq(RMul(a, a), Radicand(b))
Less(a, b) == ~Leq(b, a)

\* the square of a real below SurdCap
Square(x) == IF IsSurd(x) THEN Radicand(x) ELSE RMul(x, x)

\* the model's precision for a surd that enters arithmetic: rounded down to
\* a multiple of 1/SqrtScale
SqrtScale == 64
Approx(x) ==
    IF IsSurd(x) THEN Rat(ISqrt((x[1] * SqrtScale * SqrtScale) \div x[2]), SqrtScale)
    ELSE x

---------------------------------------------------------------------------
(* WGSL built-ins *)

min(a, b) == IF Leq(a, b) THEN a ELSE b
max(a, b) == IF Leq(a, b) THEN b ELSE a
clamp(e, low, high) == min(max(e, low), high)

\* the values an indeterminate f32 is drawn from
Indeterminate == {R(-2), Zero, Half, One, R(3)}

\* e1 / e2 in f32: the outcomes; a zero divisor leaves the result indeterminate
Quot(e1, e2) == IF e2 = Zero THEN Indeterminate ELSE {RQuot(e1, e2)}

\* vec2<f32>
VAdd(u, v) == <<RAdd(u[1], v[1]), RAdd(u[2], v[2])>>
VSub(u, v) == <<RSub(u[1], v[1]), RSub(u[2], v[2])>>
VScale(u, k) == <<RMul(u[1], k), RMul(u[2], k)>>
VMul(u, v) == <<RMul(u[1], v[1]), RMul(u[2], v[2])>>
dot(u, v) == RAdd(RMul(u[1], v[1]), RMul(u[2], v[2]))
length(v) == Sqrt(dot(v, v))
distance(u, v) == length(VSub(u, v))

\* t * t * (3 - 2t)
Hermite(t) == RMul(RMul(t, t), RSub(R(3), RMul(R(2), t)))

\* the precision of smoothstep: its interpolant t and its result are rounded
\* down to a multiple of 1/Precision (0 and 1 stay exact, the order is kept)
Precision == 512
FloorTo(x, s) ==
    IF s % x[2] = 0 THEN x
    ELSE IF x[2] % s = 0 THEN Rat(x[1] \div (x[2] \div s), s)
    ELSE Rat((x[1] * s) \div x[2], s)

\* smoothstep(low, high, x) for low # high:
\* t = clamp((x - low) / (high - low), 0, 1), result t*t*(3 - 2t).
\* For a surd x the two clamped ends are decided exactly.
smoothstep(low, high, x) ==
    LET t == IF IsSurd(x) /\ (IF RLess(low, high) THEN Leq(x, low) ELSE Leq(low, x))
                 THEN Zero
             ELSE IF IsSurd(x) /\ (IF RLess(low, high) THEN Leq(high, x) ELSE Leq(x, high))
                 THEN One
             ELSE clamp(RQuot(RSub(Approx(x), low), RSub(high, low)), Zero, One)
    IN FloorTo(Hermite(FloorTo(t, Precision)), Precision)

\* mix(e1, e2, e3) = e1 * (1 - e3) + e2 * e3
mix(e1, e2, e3) == RAdd(RMul(e1, RSub(One, e3)), RMul(e2, e3))

---------------------------------------------------------------------------
(* u32: 32 bits as two 16-bit limbs <<hi, lo>> *)

Limb == 2^16
U32(n) == <<n \div Limb, n % Limb>>
UAdd1(u) ==
    IF u[2] + 1 < Limb THEN <<u[1], u[2] + 1>>
    ELSE <<(u[1] + 1) % Limb, 0>>
USub1(u) ==
    IF u[2] > 0 THEN <<u[1], u[2] - 1>>
    ELSE <<(u[1] + Limb - 1) % Limb, Limb - 1>>
ULess(u, v) == u[1] < v[1] \/ (u[1] = v[1] /\ u[2] < v[2])
\* a u32 below 2^16 as a number
UValue(u) == u[2]
IsWide(u) == u[1] # 0

\* f32(u) for a u32 below 2^16
F32(u) == R(UValue(u))

\* the largest sample count of the model: the capacity of the waveform buffer
MaxN == 3

\* the buffer's capacity in place of its live length
arrayLength_capacity(buffer) == U32(MaxN)

\* arrayLength(&buffer): the live element count of a runtime-sized array
arrayLength(buffer) == U32(Len(buffer))

\* buffer[i]: the outcomes of the load; out of bounds it is indeterminate
Load(buffer, i) ==
    IF ~IsWide(i) /\ UValue(i) < Len(buffer) THEN {buffer[UValue(i) + 1]}
    ELSE Indeterminate

RECURSIVE SeqsUpTo(_, _)
\* the sequences over S of length 0..n
SeqsUpTo(S, n) ==
    IF n = 0 THEN {<<>>}
    ELSE LET shorter == SeqsUpTo(S, n - 1)
         IN shorter \cup { Append(q, x) : q \in { t \in shorter : Len(t) = n - 1 }, x \in S }

\* the sample values the simulation supplies (in [-1, 1])
SampleVals == {R(-1), Zero, One}

---------------------------------------------------------------------------
(* State shared by the specifications *)

NoUniforms == [time |-> Zero, resolution_x |-> One, resolution_y |-> One, slot |-> 0]
NoCall == [entry |-> "none", pc |-> "idle"]
NoFrame == [phase |-> "idle"]

\* the frontend components are not mounted
FrontendUnmounted ==
    /\ status = "loading"
    /\ messages = <<>>
    /\ input = ""
    /\ fetches = [inflight |-> {}, settled |-> <<>>]
    /\ submits = 0
    /\ metrics = [type |-> "null"]
    /\ isConnected = FALSE
    /\ ws = [readyState |-> "NONE", mounted |-> FALSE, closeDue |-> FALSE, events |-> <<>>]
    /\ rendered = [kind |-> "nothing"]

\* the rendering pipeline is not running
PipelineIdle ==
    /\ uniforms = NoUniforms
    /\ eeg_data = <<>>
    /\ columns = <<>>
    /\ call = NoCall
    /\ out = <<>>
    /\ samples = <<>>
    /\ frame = NoFrame

---------------------------------------------------------------------------
(* src/src/eeg_shader.wgsl: dist_to_segment *)

dist_to_segment_unclamped(p, a, b) ==
    LET pa == VSub(p, a)
        ba == VSub(b, a)
    IN { [h |-> h, ret |-> length(VSub(pa, VScale(ba, h)))] :
            h \in Quot(dot(pa, ba), dot(ba, ba)) }

\* the outcomes of one call: the local h and the value returned
dist_to_segment(p, a, b) ==
    LET pa == VSub(p, a)
        ba == VSub(b, a)
    IN { [h |-> h, ret |-> length(VSub(pa, VScale(ba, h)))] :
            h \in { clamp(q, Zero, One) : q \in Quot(dot(pa, ba), dot(ba, ba)) } }

\* the points dist_to_segment is called on
SegCoords == {-5, 0, 5, 10}
SegPoints == { <<R(x), R(y)>> : x \in SegCoords, y \in SegCoords }

InitSeg ==
    /\ FrontendUnmounted
    /\ call \in { [entry |-> "dist_to_segment", pc |-> "call", p |-> p, a |-> a, b |-> b] :
                    p \in SegPoints, a \in SegPoints, b \in SegPoints }
    /\ uniforms = NoUniforms
    /\ eeg_data = <<>>
    /\ columns = <<>>
    /\ out = <<>>
    /\ samples = <<>>
    /\ frame = NoFrame

DistToSegment ==
    /\ call.entry = "dist_to_segment"
    /\ call.pc = "call"
    /\ \E o \in dist_to_segment(call.p, call.a, call.b) :
          call' = [entry |-> "dist_to_segment", pc |-> "done",
                   p |-> call.p, a |-> call.a, b |-> call.b, h |-> o.h, ret |-> o.ret]
    /\ UNCHANGED <<uniforms, eeg_data, columns, out, samples, frame>>
    /\ UNCHANGED frontendVars

NextSeg == DistToSegment
SpecSeg == InitSeg /\ [][NextSeg]_vars

\* the parameters at which the segment is sampled: k / SegSamples, k = 0..SegSamples
SegSamples == 4
SegParams == { Rat(k, SegSamples) : k \in 0..SegSamples }
PointAt(a, b, t) == VAdd(a, VScale(VSub(b, a), t))
Projection(p, a, b) == RQuot(dot(VSub(p, a), VSub(b, a)), dot(VSub(b, a), VSub(b, a)))

\* C6: for a # b, dist_to_segment(p, a, b) is the Euclidean distance from p to
\* the nearest point of the closed segment a-b: it is the distance to the point
\* of the segment at parameter h in [0,1], no point of the segment is nearer,
\* h is the projection parameter clamped to [0,1] (so a projection before a or
\* after b gives the distance to that endpoint), and on segment (0,0)-(10,0)
\* p = (5,5) gives h = 0.5, distance 5 and p = (-5,0) gives h = 0, distance 5.
C6_NearestPoint ==
    (call.entry = "dist_to_segment" /\ call.pc = "done" /\ call.a # call.b) =>
        LET p == call.p
            a == call.a
            b == call.b
            proj == Projection(p, a, b)
        IN /\ RLeq(Zero, call.h) /\ RLeq(call.h, One)
           /\ call.ret = distance(p, PointAt(a, b, call.h))
           /\ \A t \in SegParams : Leq(call.ret, distance(p, PointAt(a, b, t)))
           /\ RLeq(proj, Zero) => (call.h = Zero /\ call.ret = distance(p, a))
           /\ RLeq(One, proj) => (call.h = One /\ call.ret = distance(p, b))
           /\ (RLeq(Zero, proj) /\ RLeq(proj, One)) =>
                 (call.h = proj /\ dot(VSub(p, PointAt(a, b, call.h)), VSub(b, a)) = Zero)
           /\ (a = <<R(0), R(0)>> /\ b = <<R(10), R(0)>> /\ p = <<R(5), R(5)>>) =>
                 (call.h = Half /\ call.ret = R(5))
           /\ (a = <<R(0), R(0)>> /\ b = <<R(10), R(0)>> /\ p = <<R(-5), R(0)>>) =>
                 (call.h = Zero /\ call.ret = R(5))

\* the clamp has acted: the projection of p falls before a, and the call returned
C6_Witness ==
    /\ call.entry = "dist_to_segment" /\ call.pc = "done"
    /\ call.a = <<R(0), R(0)>> /\ call.b = <<R(10), R(0)>> /\ call.p = <<R(-5), R(0)>>
    /\ call.ret = R(5)

---------------------------------------------------------------------------
(* src/neuro_visualizer/src/eeg_shader.wgsl: Waveform-Direct *)

OffScreen == <<R(-2), R(-2), Zero, One>>

\* vs_main with the guard written `>`: index N is taken for a live sample
vs_main_direct_gt(buffer, in_vertex_index) ==
    LET num_points == arrayLength(buffer)
        den == F32(USub1(num_points))
    IN IF ULess(num_points, in_vertex_index)
       THEN { [clip_position |-> OffScreen, num_points |-> num_points,
                reads |-> {}, divisors |-> {}] }
       ELSE { [clip_position |-> <<RAdd(R(-1), RMul(q, R(2))), RMul(s, Half), Zero, One>>,
               num_points |-> num_points,
               reads |-> {UValue(in_vertex_index)}, divisors |-> {den}] :
                 q \in Quot(F32(in_vertex_index), den), s \in Load(buffer, in_vertex_index) }

\* vs_main dividing by num_points instead of num_points - 1u
vs_main_direct_byN(buffer, in_vertex_index) ==
    LET num_points == arrayLength(buffer)
        den == F32(num_points)
    IN IF ~ULess(in_vertex_index, num_points)
       THEN { [clip_position |-> OffScreen, num_points |-> num_points,
                reads |-> {}, divisors |-> {}] }
       ELSE { [clip_position |-> <<RAdd(R(-1), RMul(q, R(2))), RMul(s, Half), Zero, One>>,
               num_points |-> num_points,
               reads |-> {UValue(in_vertex_index)}, divisors |-> {den}] :
                 q \in Quot(F32(in_vertex_index), den), s \in Load(buffer, in_vertex_index) }

\* vs_main without the factor 0.5 on the sample
vs_main_direct_full(buffer, in_vertex_index) ==
    LET num_points == arrayLength(buffer)
        den == F32(USub1(num_points))
    IN IF ~ULess(in_vertex_index, num_points)
       THEN { [clip_position |-> OffScreen, num_points |-> num_points,
                reads |-> {}, divisors |-> {}] }
       ELSE { [clip_position |-> <<RAdd(R(-1), RMul(q, R(2))), s, Zero, One>>,
               num_points |-> num_points,
               reads |-> {UValue(in_vertex_index)}, divisors |-> {den}] :
                 q \in Quot(F32(in_vertex_index), den), s \in Load(buffer, in_vertex_index) }

\* the outcomes of one invocation: the position emitted, the num_points it
\* read, the indices of eeg_data it loaded and the divisors it divided by
vs_main_direct(buffer, in_vertex_index) ==
    LET num_points == arrayLength(buffer)
        den == F32(USub1(num_points))
    IN IF ~ULess(in_vertex_index, num_points)
       THEN { [clip_position |-> OffScreen, num_points |-> num_points,
                reads |-> {}, divisors |-> {}] }
       ELSE { [clip_position |-> <<RAdd(R(-1), RMul(q, R(2))), RMul(s, Half), Zero, One>>,
               num_points |-> num_points,
               reads |-> {UValue(in_vertex_index)}, divisors |-> {den}] :
                 q \in Quot(F32(in_vertex_index), den), s \in Load(buffer, in_vertex_index) }

\* the vertex count of the line-strip draw
DrawVertices == 4

InitDirect ==
    /\ FrontendUnmounted
    /\ eeg_data \in SeqsUpTo(SampleVals, MaxN)
    /\ call = [entry |-> "vs_main_direct", pc |-> "draw"]
    /\ out = <<>>
    /\ uniforms = NoUniforms
    /\ columns = <<>>
    /\ samples = <<>>
    /\ frame = NoFrame

\* one vertex invocation of the draw; the invocations run in any order
VsMainDirect ==
    /\ call.entry = "vs_main_direct"
    /\ \E i \in (0..(DrawVertices - 1)) \ DOMAIN out :
          \E o \in vs_main_direct(eeg_data, U32(i)) :
             out' = (i :> o) @@ out
    /\ UNCHANGED <<uniforms, eeg_data, columns, call, samples, frame>>
    /\ UNCHANGED frontendVars

NextDirect == VsMainDirect
SpecDirect == InitDirect /\ [][NextDirect]_vars

\* inside the visible clip area [-1,1] x [-1,1]
Visible(pos) ==
    /\ RLeq(R(-1), pos[1]) /\ RLeq(pos[1], One)
    /\ RLeq(R(-1), pos[2]) /\ RLeq(pos[2], One)

\* C2 (as claimed): for N in {0,1} no emitted vertex is inside the visible
\* clip area and no division has a zero divisor.
C2_DrawNothingNoFault ==
    (call.entry = "vs_main_direct" /\ Len(eeg_data) <= 1) =>
        \A i \in DOMAIN out :
            /\ ~Visible(out[i].clip_position)
            /\ Zero \notin out[i].divisors

\* C3: an invocation loads eeg_data[i] only when i < N, and every vertex with
\* i >= N is emitted at (-2,-2) without loading from the buffer.
C3_NoReadBeyondLength ==
    call.entry = "vs_main_direct" =>
        \A i \in DOMAIN out :
            /\ \A j \in out[i].reads : j < Len(eeg_data)
            /\ out[i].reads \subseteq {i}
            /\ i >= Len(eeg_data) =>
                  (out[i].reads = {} /\ out[i].clip_position = OffScreen)

\* a vertex at i = N, the first index past the live samples, has been emitted
C3_Witness ==
    /\ call.entry = "vs_main_direct"
    /\ Len(eeg_data) >= 1
    /\ Len(eeg_data) \in DOMAIN out
    /\ (Len(eeg_data) - 1) \in DOMAIN out
    /\ out[Len(eeg_data) - 1].reads = {Len(eeg_data) - 1}

---------------------------------------------------------------------------
(* src/src/eeg_shader.wgsl: Waveform-SDF fs_main *)

Sentinel == R(1000000000)
line_color == <<Zero, One, Rat(4, 5)>>
glow_radius_px == R(10)
line_width_px == Rat(3, 2)

Resolution(u) == <<u.resolution_x, u.resolution_y>>

\* f32(i) / f32(num_points - 1u): the outcomes.  A divisor of 2^16 or more
\* arises only as f32(0u - 1u) = 2^32; the quotient of the small i by it is
\* below 2^-16 and is rounded to 0, the model's precision.
UnitQuot(i, m) == IF IsWide(m) THEN {Zero} ELSE Quot(F32(i), F32(m))

\* the loop condition i < num_points - 2u: the last segment is left out
sdf_loop_cond_short(i, num_points) == ULess(i, USub1(USub1(num_points)))

\* the loop condition i < num_points - 1u, in u32
sdf_loop_cond(i, num_points) == ULess(i, USub1(num_points))

\* the loop body with the horizontal position as i / num_points
sdf_segment_byN(u, buffer, i, num_points) ==
    { [p1 |-> VMul(<<x1, RQuot(RAdd(s1, One), R(2))>>, Resolution(u)),
       p2 |-> VMul(<<x2, RQuot(RAdd(s2, One), R(2))>>, Resolution(u))] :
         x1 \in UnitQuot(i, num_points),
         x2 \in UnitQuot(UAdd1(i), num_points),
         s1 \in Load(buffer, i),
         s2 \in Load(buffer, UAdd1(i)) }

\* the outcomes of one loop body: the segment's end points in pixels
sdf_segment(u, buffer, i, num_points) ==
    { [p1 |-> VMul(<<x1, RQuot(RAdd(s1, One), R(2))>>, Resolution(u)),
       p2 |-> VMul(<<x2, RQuot(RAdd(s2, One), R(2))>>, Resolution(u))] :
         x1 \in UnitQuot(i, USub1(num_points)),
         x2 \in UnitQuot(UAdd1(i), USub1(num_points)),
         s1 \in Load(buffer, i),
         s2 \in Load(buffer, UAdd1(i)) }

VScale3(c, k) == <<RMul(c[1], k), RMul(c[2], k), RMul(c[3], k)>>

\* the shaping with the smoothstep edges in the usual order (low < high)
sdf_shade_swapped(min_dist) ==
    LET intensity == smoothstep(Zero, glow_radius_px, min_dist)
        core_line == smoothstep(Zero, line_width_px, min_dist)
    IN [intensity |-> intensity, core_line |-> core_line,
        final_color |-> VScale3(line_color, RAdd(RMul(intensity, Half), RMul(core_line, Half))),
        final_alpha |-> intensity]

\* lines 70-83: glow, core, colour and alpha from the minimum distance
sdf_shade(min_dist) ==
    LET intensity == smoothstep(glow_radius_px, Zero, min_dist)
        core_line == smoothstep(line_width_px, Zero, min_dist)
    IN [intensity |-> intensity, core_line |-> core_line,
        final_color |-> VScale3(line_color, RAdd(RMul(intensity, Half), RMul(core_line, Half))),
        final_alpha |-> intensity]

\* the resolutions and the interpolated frag_coord values of the model
Resolutions == {<<R(40), R(20)>>, <<R(24), R(24)>>, <<R(4), R(2)>>}
FragCoords == { <<Rat(x, 2), Rat(y, 2)>> : x \in -2..2, y \in -2..2 }
\* the loop iterations the model follows in one invocation
MaxIter == 3

InitSdf ==
    /\ FrontendUnmounted
    /\ eeg_data \in SeqsUpTo(SampleVals, MaxN)
    /\ uniforms \in { [time |-> Zero, resolution_x |-> r[1], resolution_y |-> r[2], slot |-> 0] :
                        r \in Resolutions }
    /\ call \in { [entry |-> "fs_main_sdf", pc |-> "start", frag_coord |-> fc] :
                    fc \in FragCoords }
    /\ out = <<>>
    /\ columns = <<>>
    /\ samples = <<>>
    /\ frame = NoFrame

\* lines 52-56
FsSdfBegin ==
    /\ call.entry = "fs_main_sdf"
    /\ call.pc = "start"
    /\ LET uv == VScale(VAdd(call.frag_coord, <<One, One>>), Half)
       IN call' = [entry |-> "fs_main_sdf", pc |-> "loop", frag_coord |-> call.frag_coord,
                   frag_coord_px |-> VMul(uv, Resolution(uniforms)),
                   num_points |-> arrayLength(eeg_data),
                   min_dist |-> Sentinel,
                   i |-> U32(0),
                   reads |-> {}]
    /\ UNCHANGED <<uniforms, eeg_data, columns, out, samples, frame>>
    /\ UNCHANGED frontendVars

\* lines 59-68: one iteration of the segment loop; reads is the set of the
\* indices eeg_data was loaded at
FsSdfStep ==
    /\ call.entry = "fs_main_sdf"
    /\ call.pc = "loop"
    /\ sdf_loop_cond(call.i, call.num_points)
    /\ UValue(call.i) < MaxIter
    /\ \E seg \in sdf_segment(uniforms, eeg_data, call.i, call.num_points) :
          \E o \in dist_to_segment(call.frag_coord_px, seg.p1, seg.p2) :
             call' = [call EXCEPT !.min_dist = min(call.min_dist, o.ret),
                                  !.i = UAdd1(call.i),
                                  !.reads = call.reads \cup {UValue(call.i), UValue(UAdd1(call.i))}]
    /\ UNCHANGED <<uniforms, eeg_data, columns, out, samples, frame>>
    /\ UNCHANGED frontendVars

\* lines 70-83: the loop has ended
FsSdfFinish ==
    /\ call.entry = "fs_main_sdf"
    /\ call.pc = "loop"
    /\ ~sdf_loop_cond(call.i, call.num_points)
    /\ call' = [call EXCEPT !.pc = "done"]
    /\ out' = (call.frag_coord :> sdf_shade(call.min_dist)) @@ out
    /\ UNCHANGED <<uniforms, eeg_data, columns, samples, frame>>
    /\ UNCHANGED frontendVars

NextSdf == FsSdfBegin \/ FsSdfStep \/ FsSdfFinish
SpecSdf == InitSdf /\ [][NextSdf]_vars

\* C1 (as claimed): for N in {0,1} the segment loop runs zero iterations,
\* min_dist stays at the sentinel 1e9 and the returned alpha is 0.
C1_NoSegmentsTransparent ==
    (call.entry = "fs_main_sdf" /\ call.pc \in {"loop", "done"} /\ Len(eeg_data) <= 1) =>
        /\ call.i = U32(0)
        /\ call.min_dist = Sentinel
        /\ call.pc = "done" => out[call.frag_coord].final_alpha = Zero

\* sample k in pixels, as the spec places it
SamplePx(k) ==
    <<RMul(Rat(k, Len(eeg_data) - 1), uniforms.resolution_x),
      RMul(RQuot(RAdd(eeg_data[k + 1], One), R(2)), uniforms.resolution_y)>>

\* p lies on the closed segment a-b
OnSegment(p, a, b) ==
    LET pa == VSub(p, a)
        ba == VSub(b, a)
    IN /\ RSub(RMul(pa[1], ba[2]), RMul(pa[2], ba[1])) = Zero
       /\ RLeq(Zero, dot(pa, ba))
       /\ RLeq(dot(pa, ba), dot(ba, ba))

FragOnWaveform ==
    \E k \in 0..(Len(eeg_data) - 2) :
        OnSegment(call.frag_coord_px, SamplePx(k), SamplePx(k + 1))

\* C5: for N >= 2, a fragment whose pixel coordinate lies exactly on some
\* segment k (0 <= k <= N-2) gets minimum distance 0, glow = core = 1,
\* alpha = 1 and the colour of the line hue.
C5_OnSegmentFullGlow ==
    (call.entry = "fs_main_sdf" /\ call.pc = "done" /\ Len(eeg_data) >= 2 /\ FragOnWaveform) =>
        LET o == out[call.frag_coord]
        IN /\ call.min_dist = Zero
           /\ o.intensity = One
           /\ o.core_line = One
           /\ o.final_alpha = One
           /\ o.final_color = line_color

\* a fragment in the interior of the last of two segments has been shaded
C5_Witness ==
    /\ call.entry = "fs_main_sdf" /\ call.pc = "done"
    /\ Len(eeg_data) = 3
    /\ OnSegment(call.frag_coord_px, SamplePx(1), SamplePx(2))
    /\ call.frag_coord_px # SamplePx(1)
    /\ call.frag_coord_px # SamplePx(2)
    /\ ~OnSegment(call.frag_coord_px, SamplePx(0), SamplePx(1))
    /\ out[call.frag_coord].final_alpha = One

InViewport(p) ==
    /\ RLeq(Zero, p[1]) /\ RLeq(p[1], uniforms.resolution_x)
    /\ RLeq(Zero, p[2]) /\ RLeq(p[2], uniforms.resolution_y)

\* C17: for N >= 2 the loop visits exactly the segments k = 0..N-2 and loads
\* only the indices 0..N-1; iteration k measures the distance to the segment
\* from sample k to sample k+1, sample k standing at pixel
\* (k/(N-1)*width, (sample[k]+1)/2*height), so that sample 0 is at x = 0,
\* sample N-1 at x = width and, the samples being in [-1,1], every end point
\* lies in [0,width] x [0,height].
C17_SegmentMapping ==
    /\ [](  (call.entry = "fs_main_sdf" /\ call.pc \in {"loop", "done"} /\ Len(eeg_data) >= 2) =>
               LET N == Len(eeg_data)
                   n == UValue(call.i)
               IN /\ ~IsWide(call.i) /\ n <= N - 1
                  /\ call.pc = "done" => n = N - 1
                  /\ call.reads = (IF n = 0 THEN {} ELSE 0..n)
                  /\ call.reads \subseteq 0..(N - 1)  )
    /\ [][ (call.entry = "fs_main_sdf" /\ call.pc = "loop" /\ call'.pc = "loop"
              /\ Len(eeg_data) >= 2) =>
               LET N == Len(eeg_data)
                   k == UValue(call.i)
                   p1 == SamplePx(k)
                   p2 == SamplePx(k + 1)
               IN /\ call'.i = UAdd1(call.i) /\ k <= N - 2
                  /\ sdf_segment(uniforms, eeg_data, call.i, call.num_points)
                        = {[p1 |-> p1, p2 |-> p2]}
                  /\ \E o \in dist_to_segment(call.frag_coord_px, p1, p2) :
                        call'.min_dist = min(call.min_dist, o.ret)
                  /\ k = 0 => p1[1] = Zero
                  /\ k = N - 2 => p2[1] = uniforms.resolution_x
                  /\ InViewport(p1) /\ InViewport(p2) ]_vars

\* the loop over three samples has ended after its second segment: the
\* fragment is nearer to the first segment than to the second
C17_Witness ==
    /\ call.entry = "fs_main_sdf" /\ call.pc = "done"
    /\ Len(eeg_data) = 3
    /\ UValue(call.i) = 2
    /\ call.reads = {0, 1, 2}
    /\ \E o1 \in dist_to_segment(call.frag_coord_px, SamplePx(0), SamplePx(1)),
          o2 \in dist_to_segment(call.frag_coord_px, SamplePx(1), SamplePx(2)) :
          /\ RLess(o1.ret, o2.ret)
          /\ call.min_dist = o1.ret

\* distances the shaping is compared at
ShadeProbes == {Zero, Half, One, Rat(3, 2), R(2), R(5), R(10), R(12), Sentinel}

\* C18: with d* the minimum distance, alpha = glow = smoothstep(10, 0, d*),
\* core = smoothstep(1.5, 0, d*) and colour = line hue * (0.5 glow + 0.5 core);
\* alpha is 0 for d* >= 10, core is 0 for d* >= 1.5, neither increases with
\* the distance, and core <= glow.
C18_Shaping ==
    (call.entry = "fs_main_sdf" /\ call.pc = "done") =>
        LET d == call.min_dist
            o == out[call.frag_coord]
            glow == smoothstep(R(10), Zero, d)
            core == smoothstep(Rat(3, 2), Zero, d)
        IN /\ o.final_alpha = glow
           /\ o.intensity = glow
           /\ o.core_line = core
           /\ o.final_color = VScale3(<<Zero, One, Rat(4, 5)>>,
                                      RAdd(RMul(Half, glow), RMul(Half, core)))
           /\ Leq(R(10), d) => o.final_alpha = Zero
           /\ Leq(Rat(3, 2), d) => o.core_line = Zero
           /\ RLeq(o.core_line, o.intensity)
           /\ \A e \in ShadeProbes :
                 /\ Leq(d, e) => /\ RLeq(sdf_shade(e).final_alpha, o.final_alpha)
                                 /\ RLeq(sdf_shade(e).core_line, o.core_line)
                 /\ Leq(e, d) => /\ RLeq(o.final_alpha, sdf_shade(e).final_alpha)
                                 /\ RLeq(o.core_line, sdf_shade(e).core_line)

\* a fragment off the waveform and within the line width of it: the core and
\* the glow are both partial
C18_Witness ==
    /\ call.entry = "fs_main_sdf" /\ call.pc = "done"
    /\ Len(eeg_data) >= 2
    /\ Less(Zero, call.min_dist) /\ Less(call.min_dist, Rat(3, 2))
    /\ RLess(Zero, out[call.frag_coord].core_line)
    /\ RLess(out[call.frag_coord].core_line, out[call.frag_coord].intensity)
    /\ RLess(out[call.frag_coord].intensity, One)

---------------------------------------------------------------------------
(* The two waveform strategies on the same buffer *)

NextWaveforms == VsMainDirect \/ FsSdfBegin \/ FsSdfStep \/ FsSdfFinish
SpecWaveforms == (InitDirect \/ InitSdf) /\ [][NextWaveforms]_vars

\* the clip-space position of a pixel position: frag_coord_px = (clip + 1)/2 * resolution
ToClip(p, u) ==
    <<RSub(RQuot(RMul(R(2), p[1]), u.resolution_x), One),
      RSub(RQuot(RMul(R(2), p[2]), u.resolution_y), One)>>

ClipX(k, N) == RAdd(R(-1), Rat(2 * k, N - 1))

UniformsAt(r) == [time |-> Zero, resolution_x |-> r[1], resolution_y |-> r[2], slot |-> 0]

\* where Waveform-SDF puts sample k of the buffer, in clip space: the start of
\* segment k and the end of segment k-1
SdfClipOf(u, k) ==
    LET N == Len(eeg_data)
    IN { ToClip(seg.p1, u) : seg \in IF k <= N - 2
                                      THEN sdf_segment(u, eeg_data, U32(k), arrayLength(eeg_data))
                                      ELSE {} }
       \cup
       { ToClip(seg.p2, u) : seg \in IF k >= 1
                                      THEN sdf_segment(u, eeg_data, U32(k - 1), arrayLength(eeg_data))
                                      ELSE {} }

\* C20: on the same buffer of N >= 2 samples both strategies put sample k at
\* clip x = -1 + 2k/(N-1); Waveform-SDF puts the value s at clip y = s (pixel
\* (s+1)/2*height), Waveform-Direct at clip y = 0.5*s, half of it.
C20_SameXHalfY ==
    /\ []( (call.entry = "vs_main_direct" /\ Len(eeg_data) >= 2) =>
              \A k \in DOMAIN out :
                 k < Len(eeg_data) =>
                    /\ out[k].clip_position[1] = ClipX(k, Len(eeg_data))
                    /\ out[k].clip_position[2] = RMul(Half, eeg_data[k + 1])
                    /\ \A r \in Resolutions :
                          /\ SdfClipOf(UniformsAt(r), k) = {<<ClipX(k, Len(eeg_data)), eeg_data[k + 1]>>}
                          /\ \A c \in SdfClipOf(UniformsAt(r), k) :
                                /\ c[1] = out[k].clip_position[1]
                                /\ out[k].clip_position[2] = RMul(Half, c[2]) )
    /\ [][ (call.entry = "fs_main_sdf" /\ call.pc = "loop" /\ call'.pc = "loop"
              /\ Len(eeg_data) >= 2) =>
               LET N == Len(eeg_data)
                   k == UValue(call.i)
               IN \A seg \in sdf_segment(uniforms, eeg_data, call.i, call.num_points) :
                     /\ ToClip(seg.p1, uniforms) = <<ClipX(k, N), eeg_data[k + 1]>>
                     /\ ToClip(seg.p2, uniforms) = <<ClipX(k + 1, N), eeg_data[k + 2]>>
                     /\ seg.p1[2] = RMul(RQuot(RAdd(eeg_data[k + 1], One), R(2)),
                                         uniforms.resolution_y)
                     /\ \E o \in dist_to_segment(call.frag_coord_px, seg.p1, seg.p2) :
                           call'.min_dist = min(call.min_dist, o.ret)
                     /\ \A v \in vs_main_direct(eeg_data, call.i) :
                           /\ v.clip_position[1] = ToClip(seg.p1, uniforms)[1]
                           /\ v.clip_position[2] = RMul(Half, ToClip(seg.p1, uniforms)[2])
                     /\ \A v \in vs_main_direct(eeg_data, UAdd1(call.i)) :
                           /\ v.clip_position[1] = ToClip(seg.p2, uniforms)[1]
                           /\ v.clip_position[2] = RMul(Half, ToClip(seg.p2, uniforms)[2]) ]_vars

\* the draw over three samples is complete: the middle sample, of value 1, is
\* at clip (0, 0.5) in Waveform-Direct and at clip (0, 1) in Waveform-SDF
C20_Witness ==
    /\ call.entry = "vs_main_direct"
    /\ Len(eeg_data) = 3
    /\ eeg_data[2] = One
    /\ DOMAIN out = 0..(DrawVertices - 1)
    /\ out[1].clip_position[1] = Zero
    /\ out[1].clip_position[2] = Half
    /\ \A r \in Resolutions : SdfClipOf(UniformsAt(r), 1) = {<<Zero, One>>}

---------------------------------------------------------------------------
(* Full-Screen Stage: the three vs_main that draw one covering triangle *)

\* src/src/eeg_shader.wgsl: the vertex table
pos_table == <<  <<R(-1), R(-1)>>, <<R(3), R(-1)>>, <<R(-1), R(3)>>  >>

\* the outcome of one invocation: the position and the buffer indices loaded
vs_main_table(in_vertex_index) ==
    LET p == pos_table[in_vertex_index + 1]
    IN [clip_position |-> <<p[1], p[2], Zero, One>>, frag_coord |-> p, reads |-> {}]

\* the parity encoding scaled by 2.0: the triangle stops at the viewport's diagonal
vs_main_glow_half(in_vertex_index) ==
    LET x == RSub(RMul(R(in_vertex_index \div 2), R(2)), One)
        y == RSub(RMul(R(in_vertex_index % 2), R(2)), One)
    IN [clip_position |-> <<x, y, Zero, One>>, reads |-> {}]

\* src/src/shader.wgsl
vs_main_glow(in_vertex_index) ==
    LET x == RSub(RMul(R(in_vertex_index \div 2), R(4)), One)
        y == RSub(RMul(R(in_vertex_index % 2), R(4)), One)
    IN [clip_position |-> <<x, y, Zero, One>>, reads |-> {}]

\* src/unnamed/part_000
vs_main_noise(in_vertex_index) ==
    LET x == RSub(RMul(R(in_vertex_index \div 2), R(4)), One)
        y == RSub(RMul(R(in_vertex_index % 2), R(4)), One)
    IN [clip_position |-> <<x, y, Zero, One>>, reads |-> {}]

StageEntries == {"vs_main_table", "vs_main_glow", "vs_main_noise"}
StageVertices == {0, 1, 2}

InitStage ==
    /\ FrontendUnmounted
    /\ call \in { [entry |-> e, pc |-> "draw"] : e \in StageEntries }
    /\ out = <<>>
    /\ uniforms \in { [time |-> Zero, resolution_x |-> r[1], resolution_y |-> r[2], slot |-> 0] :
                        r \in Resolutions }
    /\ eeg_data \in SeqsUpTo(SampleVals, MaxN)
    /\ columns = <<>>
    /\ samples = <<>>
    /\ frame = NoFrame

VsMainTable ==
    /\ call.entry = "vs_main_table"
    /\ \E i \in StageVertices \ DOMAIN out : out' = (i :> vs_main_table(i)) @@ out
    /\ UNCHANGED <<uniforms, eeg_data, columns, call, samples, frame>>
    /\ UNCHANGED frontendVars

VsMainGlow ==
    /\ call.entry = "vs_main_glow"
    /\ \E i \in StageVertices \ DOMAIN out : out' = (i :> vs_main_glow(i)) @@ out
    /\ UNCHANGED <<uniforms, eeg_data, columns, call, samples, frame>>
    /\ UNCHANGED frontendVars

VsMainNoise ==
    /\ call.entry = "vs_main_noise"
    /\ \E i \in StageVertices \ DOMAIN out : out' = (i :> vs_main_noise(i)) @@ out
    /\ UNCHANGED <<uniforms, eeg_data, columns, call, samples, frame>>
    /\ UNCHANGED frontendVars

NextStage == VsMainTable \/ VsMainGlow \/ VsMainNoise
SpecStage == InitStage /\ [][NextStage]_vars

\* twice the signed area of the triangle a, b, c
Edge(a, b, c) ==
    RSub(RMul(RSub(b[1], a[1]), RSub(c[2], a[2])), RMul(RSub(b[2], a[2]), RSub(c[1], a[1])))

\* pt is inside or on the triangle a, b, c, whichever way it winds
InTriangle(pt, a, b, c) ==
    LET e1 == Edge(a, b, pt)
        e2 == Edge(b, c, pt)
        e3 == Edge(c, a, pt)
    IN /\ Edge(a, b, c) # Zero
       /\ \/ (RLeq(Zero, e1) /\ RLeq(Zero, e2) /\ RLeq(Zero, e3))
          \/ (RLeq(e1, Zero) /\ RLeq(e2, Zero) /\ RLeq(e3, Zero))

\* points of the viewport square [-1,1] x [-1,1], its four corners among them
ViewportPoints == FragCoords

\* C9: for vertex indices 0, 1, 2 each vs_main variant emits three clip-space
\* positions whose triangle contains every point of the viewport square,
\* whatever the resolution, and loads from no buffer.
C9_TriangleCoversViewport ==
    call.entry \in StageEntries =>
        /\ \A i \in DOMAIN out : out[i].reads = {}
        /\ DOMAIN out = StageVertices =>
              \A pt \in ViewportPoints :
                  InTriangle(pt, out[0].clip_position, out[1].clip_position, out[2].clip_position)

\* the parity-encoded triangle of the Column-Glow program is complete, on a
\* viewport that is not square
C9_Witness ==
    /\ call.entry = "vs_main_glow"
    /\ DOMAIN out = StageVertices
    /\ uniforms.resolution_x # uniforms.resolution_y
    /\ out[1].clip_position = <<R(-1), R(3), Zero, One>>
    /\ out[2].clip_position = <<R(3), R(-1), Zero, One>>

---------------------------------------------------------------------------
(* src/src/shader.wgsl: Column-Glow fs_main *)

background == <<Zero, Zero, Rat(1, 50)>>
base_color == <<Rat(1, 10), Rat(7, 10), Rat(9, 10)>>
glow_gain == Rat(3, 2)
circle_radius == Rat(3, 100)
circle_blur == RMul(Rat(3, 100), Rat(9, 10))
skip_threshold == Rat(1, 100)

VAdd3(c, e) == <<RAdd(c[1], e[1]), RAdd(c[2], e[2]), RAdd(c[3], e[3])>>

\* a blurred circle
circle(uv, center, radius, blur) ==
    smoothstep(radius, RSub(radius, blur), distance(uv, center))

\* a linear ramp col.state / 0.8 in place of the smoothstep
glow_intensity_ramp(state) == RQuot(state, Rat(4, 5))

\* line 52: intensity = smoothstep(0.0, 0.8, col.state)
glow_intensity(state) == smoothstep(Zero, Rat(4, 5), state)

\* lines 54-63: what one unit adds to final_color at uv
glow_added(uv, col) ==
    LET intensity == glow_intensity(col.state)
    IN IF RLess(skip_threshold, intensity)
       THEN LET c == RMul(circle(uv, col.pos, circle_radius, circle_blur), intensity)
            IN VScale3(base_color, RMul(c, glow_gain))
       ELSE <<Zero, Zero, Zero>>

\* the units of the model: positions at and near a pixel centre, activations
\* in [0,1], two of them about the skip threshold
UnitPositions == {<<Rat(1, 4), Rat(1, 4)>>, <<Rat(27, 100), Rat(1, 4)>>}
Activations == {Zero, Rat(1, 25), Rat(2, 25), Half, One}
Units == { [pos |-> p, state |-> a] : p \in UnitPositions, a \in Activations }
\* the largest number of units of the model
MaxUnits == 2
GlowResolution == <<R(4), R(2)>>
\* @builtin(position): the pixel centres of the viewport
PixelCentres ==
    { <<Rat(2 * x + 1, 2), Rat(2 * y + 1, 2)>> :
        x \in 0..(RFloor(GlowResolution[1]) - 1), y \in 0..(RFloor(GlowResolution[2]) - 1) }

InitGlow ==
    /\ FrontendUnmounted
    /\ columns \in SeqsUpTo(Units, MaxUnits)
    /\ uniforms \in { [time |-> Zero, resolution_x |-> GlowResolution[1],
                       resolution_y |-> GlowResolution[2], slot |-> m] : m \in 0..MaxUnits }
    /\ call \in { [entry |-> "fs_main_glow", pc |-> "start", frag_coord |-> fc] :
                    fc \in PixelCentres }
    /\ out = <<>>
    /\ eeg_data = <<>>
    /\ samples = <<>>
    /\ frame = NoFrame

\* lines 39-46
FsGlowBegin ==
    /\ call.entry = "fs_main_glow"
    /\ call.pc = "start"
    /\ LET resolution == Resolution(uniforms)
           centred == VSub(call.frag_coord, VScale(resolution, Half))
       IN call' = [entry |-> "fs_main_glow", pc |-> "loop", frag_coord |-> call.frag_coord,
                   uv |-> <<RQuot(centred[1], resolution[2]), RQuot(centred[2], resolution[2])>>,
                   final_color |-> background,
                   num_columns |-> arrayLength(columns),
                   i |-> U32(0),
                   intensity |-> <<>>,
                   added |-> <<>>]
    /\ UNCHANGED <<uniforms, eeg_data, columns, out, samples, frame>>
    /\ UNCHANGED frontendVars

\* a loop body that also writes the unit's activation back, halved
FsGlowStep_decay ==
    /\ call.entry = "fs_main_glow"
    /\ call.pc = "loop"
    /\ ULess(call.i, call.num_columns)
    /\ LET col == columns[UValue(call.i) + 1]
       IN /\ call' = [call EXCEPT !.final_color = VAdd3(call.final_color, glow_added(call.uv, col)),
                                   !.intensity = Append(call.intensity, glow_intensity(col.state)),
                                   !.added = Append(call.added, glow_added(call.uv, col)),
                                   !.i = UAdd1(call.i)]
          /\ columns' = [columns EXCEPT ![UValue(call.i) + 1].state = RMul(col.state, Half)]
    /\ UNCHANGED <<uniforms, eeg_data, out, samples, frame>>
    /\ UNCHANGED frontendVars

\* lines 47-64: one iteration of the loop over the units; intensity and added
\* keep, per unit, the intensity computed and the colour added
FsGlowStep ==
    /\ call.entry = "fs_main_glow"
    /\ call.pc = "loop"
    /\ ULess(call.i, call.num_columns)
    /\ LET col == columns[UValue(call.i) + 1]
       IN call' = [call EXCEPT !.final_color = VAdd3(call.final_color, glow_added(call.uv, col)),
                                !.intensity = Append(call.intensity, glow_intensity(col.state)),
                                !.added = Append(call.added, glow_added(call.uv, col)),
                                !.i = UAdd1(call.i)]
    /\ UNCHANGED <<uniforms, eeg_data, columns, out, samples, frame>>
    /\ UNCHANGED frontendVars

\* a return that clamps the colour to [0, 1]
FsGlowFinish_clamped ==
    /\ call.entry = "fs_main_glow"
    /\ call.pc = "loop"
    /\ ~ULess(call.i, call.num_columns)
    /\ call' = [call EXCEPT !.pc = "done"]
    /\ out' = (call.frag_coord :>
                 [color |-> <<clamp(call.final_color[1], Zero, One),
                              clamp(call.final_color[2], Zero, One),
                              clamp(call.final_color[3], Zero, One)>>,
                  alpha |-> One]) @@ out
    /\ UNCHANGED <<uniforms, eeg_data, columns, samples, frame>>
    /\ UNCHANGED frontendVars

\* line 66
FsGlowFinish ==
    /\ call.entry = "fs_main_glow"
    /\ call.pc = "loop"
    /\ ~ULess(call.i, call.num_columns)
    /\ call' = [call EXCEPT !.pc = "done"]
    /\ out' = (call.frag_coord :> [color |-> call.final_color, alpha |-> One]) @@ out
    /\ UNCHANGED <<uniforms, eeg_data, columns, samples, frame>>
    /\ UNCHANGED frontendVars

NextGlow == FsGlowBegin \/ FsGlowStep \/ FsGlowFinish
SpecGlow == InitGlow /\ [][NextGlow]_vars

\* C10: a unit with activation 0 has intensity 0 and adds nothing to the
\* colour at any pixel; a unit with activation 1 has intensity 1.
C10_IntensityEndpoints ==
    (call.entry = "fs_main_glow" /\ call.pc \in {"loop", "done"}) =>
        \A k \in 1..Len(call.intensity) :
            /\ columns[k].state = Zero =>
                  (call.intensity[k] = Zero /\ call.added[k] = <<Zero, Zero, Zero>>)
            /\ columns[k].state = One => call.intensity[k] = One

\* at a pixel at the centre of a fully active unit, next to an inactive one:
\* the inactive unit added nothing and the active one its full glow
C10_Witness ==
    /\ call.entry = "fs_main_glow" /\ call.pc = "done"
    /\ Len(columns) = 2
    /\ columns[1].state = Zero /\ columns[2].state = One
    /\ columns[1].pos = call.uv /\ columns[2].pos = call.uv
    /\ call.added[2] = VScale3(base_color, glow_gain)
    /\ out[call.frag_coord].color = VAdd3(background, VScale3(base_color, glow_gain))

\* coverage and intensity of a unit at uv, as the specification names them
Coverage(uv, col) == circle(uv, col.pos, circle_radius, circle_blur)
Intensity(col) == smoothstep(Zero, Rat(4, 5), col.state)

\* C11: a unit's contribution is omitted when coverage*intensity < 0.01 and is
\* accumulated (as coverage*intensity*base_hue*1.5) when coverage*intensity >= 0.01.
C11_SkipByProduct ==
    (call.entry = "fs_main_glow" /\ call.pc \in {"loop", "done"}) =>
        \A k \in 1..Len(call.added) :
            LET ci == RMul(Coverage(call.uv, columns[k]), Intensity(columns[k]))
            IN /\ RLess(ci, Rat(1, 100)) => call.added[k] = <<Zero, Zero, Zero>>
               /\ RLeq(Rat(1, 100), ci) =>
                     call.added[k] = VScale3(base_color, RMul(ci, glow_gain))

\* the orders in which n units can stand in the buffer
Orders(n) == { f \in [1..n -> 1..n] : \A a, b \in 1..n : f[a] = f[b] => a = b }

\* what a unit the loop does not skip (line 54) contributes at uv
Contribution(uv, col) ==
    IF RLess(Rat(1, 100), Intensity(col))
    THEN VScale3(base_color, RMul(RMul(Coverage(uv, col), Intensity(col)), Rat(3, 2)))
    ELSE <<Zero, Zero, Zero>>

RECURSIVE Composite(_, _, _)
\* the background plus the contributions of the units, taken in the order f
Composite(uv, f, k) ==
    IF k = 0 THEN <<Zero, Zero, Rat(1, 50)>>
    ELSE VAdd3(Composite(uv, f, k - 1), Contribution(uv, columns[f[k]]))

\* C12: the colour returned is the background plus the sum of the
\* contributions coverage*intensity*base_hue*1.5 of the units not skipped,
\* unclamped, the same for every order of the units, and the alpha is 1.
C12_AdditiveComposite ==
    (call.entry = "fs_main_glow" /\ call.pc = "done") =>
        /\ Len(call.added) = Len(columns)
        /\ \A f \in Orders(Len(columns)) :
              out[call.frag_coord].color = Composite(call.uv, f, Len(columns))
        /\ out[call.frag_coord].alpha = One

\* two fully active units overlap at the pixel: the green and blue channels
\* leave [0, 1]
C12_Witness ==
    /\ call.entry = "fs_main_glow" /\ call.pc = "done"
    /\ Len(columns) = 2
    /\ columns[1].state = One /\ columns[2].state = Half
    /\ columns[1].pos = call.uv /\ columns[2].pos # call.uv
    /\ call.added[2] # <<Zero, Zero, Zero>>
    /\ RLess(One, out[call.frag_coord].color[2])
    /\ RLess(One, out[call.frag_coord].color[3])

\* C13: the loop bound is the unit count held in the fourth uniform slot, and
\* the loop composites that many units.
C13_LoopCountIsUniformSlot ==
    (call.entry = "fs_main_glow" /\ call.pc = "done") =>
        /\ call.num_columns = U32(uniforms.slot)
        /\ Len(call.added) = uniforms.slot

---------------------------------------------------------------------------
(* src/unnamed/part_000: Organic-Noise.  The noise is computed on a grid:   *)
(* the argument of snoise, its constants and each product are rounded down  *)
(* to a multiple of 1/NoiseScale; the permutation, on integers, is exact.   *)
(* An operand is evaluated once, before the operation that takes it.        *)

NoiseScale == 4096
NQ(x) == FloorTo(x, NoiseScale)

\* the value of a singleton
NVal(S) == CHOOSE r \in S : TRUE
NAdd(a, b) == NVal({ RAdd(ea, eb) : ea \in {a}, eb \in {b} })
NSub(a, b) == NVal({ RSub(ea, eb) : ea \in {a}, eb \in {b} })
\* an exact product, and a product on the grid
NTimes(a, b) == NVal({ RMul(ea, eb) : ea \in {a}, eb \in {b} })
NMul(a, b) == NVal({ NQ(RMul(ea, eb)) : ea \in {a}, eb \in {b} })
NDot(a, b) == NVal({ NQ(dot(ea, eb)) : ea \in {a}, eb \in {b} })

floor(x) == NVal({ R(RFloor(ex)) : ex \in {x} })
fract(x) == NVal({ RSub(ex, R(RFloor(ex))) : ex \in {x} })
abs(x) == NVal({ IF ex[1] < 0 THEN RNeg(ex) ELSE ex : ex \in {x} })

\* lines 25-31, on one component
mod289(x) == NVal({ RSub(ex, RMul(R(RFloor(RMul(ex, Rat(1, 289)))), R(289))) : ex \in {x} })
mod289_v3(x) == NVal({ <<mod289(ex[1]), mod289(ex[2]), mod289(ex[3])>> : ex \in {x} })
mod289_v2(x) == NVal({ <<mod289(ex[1]), mod289(ex[2])>> : ex \in {x} })

\* lines 33-35
permute(x) ==
    NVal({ mod289_v3(<<RMul(RAdd(RMul(ex[1], R(34)), One), ex[1]),
                       RMul(RAdd(RMul(ex[2], R(34)), One), ex[2]),
                       RMul(RAdd(RMul(ex[3], R(34)), One), ex[3])>>) : ex \in {x} })

\* line 38: 0.2113248654, 0.3660254038, -0.5773502692 on the grid, and
\* 0.0243902439, which is 1/41 to its last digit
NoiseC == <<NQ(Rat(2113, 10000)), NQ(Rat(3660, 10000)), NQ(Rat(-5774, 10000)), Rat(1, 41)>>

\* lines 46-54 for one corner of the simplex: offset d from the corner and
\* permuted index q give the corner's m * g
snoise_corner(d, q) ==
    NVal({ NMul(NMul(falloff4, NSub(NQ(Rat(17928, 10000)),
                                    NMul(NQ(Rat(8537, 10000)),
                                         NAdd(NMul(ga0, ga0), NMul(gh, gh))))),
                NAdd(NMul(ga0, d[1]), NMul(gh, d[2]))) :
             falloff4 \in { NMul(falloff2, falloff2) :
                              falloff2 \in { NMul(falloff, falloff) :
                                  falloff \in {max(RSub(Half, NQ(dot(d, d))), Zero)} } },
             gh \in { RSub(abs(gx), Half) :
                        gx \in {RSub(RMul(R(2), fract(RMul(q, NoiseC[4]))), One)} },
             ga0 \in { RSub(gx, floor(RAdd(gx, Half))) :
                         gx \in {RSub(RMul(R(2), fract(RMul(q, NoiseC[4]))), One)} } })

\* line 39: the cell of v
snoise_cell(v) ==
    NVal({ <<R(RFloor(RAdd(v[1], skew))), R(RFloor(RAdd(v[2], skew)))>> :
             skew \in {NQ(dot(v, <<NoiseC[2], NoiseC[2]>>))} })

\* lines 40-43: the offsets from the three corners, and which corner is second
snoise_offsets(v, i0) ==
    NVal({ [x0 |-> x0,
            i1 |-> i1,
            x1 |-> <<RAdd(RSub(x0[1], i1[1]), NoiseC[1]), RAdd(RSub(x0[2], i1[2]), NoiseC[1])>>,
            x2 |-> <<RAdd(x0[1], RSub(RMul(R(2), NoiseC[1]), One)),
                     RAdd(x0[2], RSub(RMul(R(2), NoiseC[1]), One))>>] :
             x0 \in { <<RAdd(RSub(v[1], i0[1]), unskew), RAdd(RSub(v[2], i0[2]), unskew)>> :
                        unskew \in {NQ(dot(i0, <<NoiseC[1], NoiseC[1]>>))} },
             i1 \in { IF RLess(y0[2], y0[1]) THEN <<One, Zero>> ELSE <<Zero, One>> :
                        y0 \in { <<RAdd(RSub(v[1], i0[1]), unskew), RAdd(RSub(v[2], i0[2]), unskew)>> :
                                   unskew \in {NQ(dot(i0, <<NoiseC[1], NoiseC[1]>>))} } } })

\* lines 44-45: the permuted indices of the three corners
snoise_hash(i0, i1) ==
    NVal({ permute(<<RAdd(py[1], im[1]),
                     RAdd(RAdd(py[2], im[1]), i1[1]),
                     RAdd(RAdd(py[3], im[1]), One)>>) :
             im \in {mod289_v2(i0)},
             py \in { permute(<<jm[2], RAdd(jm[2], i1[2]), RAdd(jm[2], One)>>) :
                        jm \in {mod289_v2(i0)} } })

\* lines 37-56
snoise(v0) ==
    NVal({ RMul(R(130), RAdd(RAdd(term[1], term[2]), term[3])) :
             term \in { <<snoise_corner(sc[1].x0, sc[2][1]),
                          snoise_corner(sc[1].x1, sc[2][2]),
                          snoise_corner(sc[1].x2, sc[2][3])>> :
                        sc \in { <<o, snoise_hash(vi[2], o.i1)>> :
                                   vi \in { <<vq, snoise_cell(vq)>> :
                                              vq \in {<<NQ(v0[1]), NQ(v0[2])>>} },
                                   o \in { snoise_offsets(wi[1], wi[2]) :
                                             wi \in { <<wq, snoise_cell(wq)>> :
                                                        wq \in {<<NQ(v0[1]), NQ(v0[2])>>} } } } } })

\* vec2 + f32
VAddS(v, k) == NVal({ <<RAdd(ev[1], ek), RAdd(ev[2], ek)>> : ev \in {v}, ek \in {k} })
\* mix on vec3<f32>
Mix3(c, e, t) ==
    NVal({ <<mix(ec[1], e[1], et), mix(ec[2], e[2], et), mix(ec[3], e[3], et)>> :
             ec \in {c}, et \in {t} })

dark_color == <<Zero, Zero, Rat(1, 20)>>
mid_color == <<Rat(1, 10), Rat(3, 10), Rat(4, 5)>>
bright_color == <<Rat(4, 5), Rat(9, 10), One>>

\* the control parameters with the ends of each mix exchanged
noise_params_swapped(awareness) ==
    [time_speed |-> mix(Rat(1, 10), R(2), awareness),
     zoom |-> mix(R(2), R(5), awareness),
     distortion_amount |-> mix(Zero, Rat(4, 5), awareness)]

\* lines 65-72: the control parameters
noise_params(awareness) ==
    [time_speed |-> mix(R(2), Rat(1, 10), awareness),
     zoom |-> mix(R(5), R(2), awareness),
     distortion_amount |-> mix(Rat(4, 5), Zero, awareness)]

\* lines 79-83: four octaves
noise_octaves(p, t) ==
    NAdd(NAdd(NAdd(NTimes(Rat(1, 2), snoise(VAddS(p, t))),
                   NTimes(Rat(1, 4), snoise(VAddS(VScale(p, R(2)), RMul(t, Rat(3, 2)))))),
              NTimes(Rat(1, 8), snoise(VAddS(VScale(p, R(4)), RMul(t, R(2)))))),
         NTimes(Rat(1, 16), snoise(VAddS(VScale(p, R(8)), RMul(t, Rat(5, 2))))))

\* lines 88-92: the warped pair r
noise_warp(p, t, f, distortion_amount) ==
    NVal({ <<snoise(VAddS(VAdd(pw, <<NQ(Rat(17, 10)), NQ(Rat(92, 10))>>), t)),
             snoise(VAddS(VAdd(pw, <<NQ(Rat(83, 10)), NQ(Rat(28, 10))>>), t))>> :
             pw \in {VAddS(p, NMul(f, distortion_amount))} })

\* a colouring that takes the second component of r for the first
noise_color_ry(r, awareness) ==
    Mix3(Mix3(dark_color, mid_color, smoothstep(Rat(-1, 10), Rat(2, 5), r[2])),
         bright_color, RMul(awareness, awareness))

\* lines 96-104
noise_color(r, awareness) ==
    Mix3(Mix3(dark_color, mid_color, smoothstep(Rat(-1, 10), Rat(2, 5), r[1])),
         bright_color, RMul(awareness, awareness))

\* the uniform blocks and fragments of the Organic-Noise model; the fourth
\* slot holds the awareness level
NoiseTimes == {Zero, One}
AwarenessLevels == {Zero, Half, One}
NoiseResolutions == {<<R(4), R(2)>>, <<R(800), R(600)>>}
NoiseUniforms(res) ==
    { [time |-> t, resolution_x |-> res[1], resolution_y |-> res[2], slot |-> a] :
        t \in NoiseTimes, a \in AwarenessLevels }
\* the centres of the first and of the last pixel
NoisePixels(res) == {<<Half, Half>>, <<RSub(res[1], Half), RSub(res[2], Half)>>}
\* the frames of a run
MaxNoiseFrames == 1

InitNoise ==
    /\ FrontendUnmounted
    /\ \E res \in NoiseResolutions : uniforms \in NoiseUniforms(res)
    /\ call = [entry |-> "fs_main_noise", pc |-> "idle"]
    /\ out = <<>>
    /\ frame = [phase |-> "noise", index |-> 0]
    /\ eeg_data = <<>>
    /\ columns = <<>>
    /\ samples = <<>>

\* between two draws the host writes the time and the awareness of the next frame
NoisePublish ==
    /\ call.entry = "fs_main_noise"
    /\ call.pc \in {"idle", "done"}
    /\ frame.index < MaxNoiseFrames
    /\ uniforms' \in NoiseUniforms(Resolution(uniforms))
    /\ frame' = [frame EXCEPT !.index = frame.index + 1]
    /\ UNCHANGED <<eeg_data, columns, call, out, samples>>
    /\ UNCHANGED frontendVars

\* the rasteriser starts the invocation of a fragment
NoiseRasterise ==
    /\ call.entry = "fs_main_noise"
    /\ call.pc \in {"idle", "done"}
    /\ \E fc \in NoisePixels(Resolution(uniforms)) :
          call' = [entry |-> "fs_main_noise", pc |-> "start", frag_coord |-> fc]
    /\ UNCHANGED <<uniforms, eeg_data, columns, out, samples, frame>>
    /\ UNCHANGED frontendVars

\* lines 61-77
FsNoiseBegin ==
    /\ call.entry = "fs_main_noise"
    /\ call.pc = "start"
    /\ LET resolution == Resolution(uniforms)
           uv == <<RQuot(call.frag_coord[1], resolution[1]),
                   RQuot(call.frag_coord[2], resolution[2])>>
           awareness == uniforms.slot
           c == noise_params(awareness)
       IN call' = [entry |-> "fs_main_noise", pc |-> "octaves",
                   frag_coord |-> call.frag_coord,
                   awareness |-> awareness,
                   time_speed |-> c.time_speed,
                   zoom |-> c.zoom,
                   distortion_amount |-> c.distortion_amount,
                   p |-> <<NMul(uv[1], c.zoom), NMul(uv[2], c.zoom)>>,
                   t |-> NMul(uniforms.time, c.time_speed)]
    /\ UNCHANGED <<uniforms, eeg_data, columns, out, samples, frame>>
    /\ UNCHANGED frontendVars

\* lines 79-83
FsNoiseOctaves ==
    /\ call.entry = "fs_main_noise"
    /\ call.pc = "octaves"
    /\ call' = [call EXCEPT !.pc = "warp"] @@ [f |-> noise_octaves(call.p, call.t)]
    /\ UNCHANGED <<uniforms, eeg_data, columns, out, samples, frame>>
    /\ UNCHANGED frontendVars

\* a warp whose time advances with the invocations that ran before
FsNoiseWarp_drift ==
    /\ call.entry = "fs_main_noise"
    /\ call.pc = "warp"
    /\ call' = [call EXCEPT !.pc = "color"] @@
                 [r |-> noise_warp(call.p, RAdd(call.t, R(Len(out))), call.f,
                                   call.distortion_amount)]
    /\ UNCHANGED <<uniforms, eeg_data, columns, out, samples, frame>>
    /\ UNCHANGED frontendVars

\* lines 88-92
FsNoiseWarp ==
    /\ call.entry = "fs_main_noise"
    /\ call.pc = "warp"
    /\ call' = [call EXCEPT !.pc = "color"] @@
                 [r |-> noise_warp(call.p, call.t, call.f, call.distortion_amount)]
    /\ UNCHANGED <<uniforms, eeg_data, columns, out, samples, frame>>
    /\ UNCHANGED frontendVars

\* lines 96-106; out keeps the first result of the run and the latest one,
\* each with the inputs and the frame of its invocation
FsNoiseFinish ==
    /\ call.entry = "fs_main_noise"
    /\ call.pc = "color"
    /\ call' = [call EXCEPT !.pc = "done"] @@ [blend |-> RMul(call.awareness, call.awareness)]
    /\ LET result == [frag_coord |-> call.frag_coord, uniforms |-> uniforms,
                      frame |-> frame.index,
                      color |-> noise_color(call.r, call.awareness), alpha |-> One]
       IN out' = IF out = <<>> THEN <<result>> ELSE <<out[1], result>>
    /\ UNCHANGED <<uniforms, eeg_data, columns, samples, frame>>
    /\ UNCHANGED frontendVars

NextNoise ==
    \/ NoisePublish \/ NoiseRasterise
    \/ FsNoiseBegin \/ FsNoiseOctaves \/ FsNoiseWarp \/ FsNoiseFinish
SpecNoise == InitNoise /\ [][NextNoise]_vars

\* a + (b - a) * w: the point at weight w on the line from a to b
Lerp(a, b, w) == RAdd(a, RMul(RSub(b, a), w))

\* C14: with awareness 0 the stage uses speed 2.0, zoom 5.0, distortion 0.8
\* and bright-blend weight 0; with awareness 1 it uses speed 0.1, zoom 2.0,
\* distortion 0.0 and weight 1; in between each parameter is the linear
\* interpolation of its endpoints and the weight is the awareness squared.
C14_ParameterEndpoints ==
    (call.entry = "fs_main_noise" /\ call.pc \in {"octaves", "warp", "color", "done"}) =>
        LET w == call.awareness
        IN /\ w = (IF call.pc = "done" THEN out[Len(out)].uniforms.slot ELSE uniforms.slot)
           /\ w = Zero => /\ call.time_speed = R(2)
                          /\ call.zoom = R(5)
                          /\ call.distortion_amount = Rat(4, 5)
           /\ w = One => /\ call.time_speed = Rat(1, 10)
                         /\ call.zoom = R(2)
                         /\ call.distortion_amount = Zero
           /\ call.time_speed = Lerp(R(2), Rat(1, 10), w)
           /\ call.zoom = Lerp(R(5), R(2), w)
           /\ call.distortion_amount = Lerp(Rat(4, 5), Zero, w)
           /\ call.pc = "done" =>
                 /\ call.blend = RMul(w, w)
                 /\ w = Zero => call.blend = Zero
                 /\ w = One => call.blend = One

\* the end-to-end example: time 0, resolution (800, 600), awareness 1.0
C14_Witness ==
    /\ call.entry = "fs_main_noise" /\ call.pc = "done"
    /\ uniforms = [time |-> Zero, resolution_x |-> R(800), resolution_y |-> R(600),
                   slot |-> One]
    /\ call.time_speed = Rat(1, 10) /\ call.zoom = R(2) /\ call.distortion_amount = Zero
    /\ call.blend = One

NoiseProbes == {R(-1), Zero, Rat(1, 5), One}

\* C19: at awareness 1 the colour returned is the bright hue (0.8, 0.9, 1.0)
\* with alpha 1, at every pixel and time; at awareness 0 it is
\* mix(dark_hue, mid_hue, smoothstep(-0.1, 0.4, r.x)); and whatever r.y is,
\* the colour is the same.
C19_BrightAtFullAwareness ==
    (call.entry = "fs_main_noise" /\ call.pc = "done") =>
        LET result == out[Len(out)]
        IN /\ result.alpha = One
           /\ call.awareness = One => result.color = <<Rat(4, 5), Rat(9, 10), One>>
           /\ call.awareness = Zero =>
                 result.color =
                    LET k == smoothstep(Rat(-1, 10), Rat(2, 5), call.r[1])
                    IN <<mix(Zero, Rat(1, 10), k), mix(Zero, Rat(3, 10), k),
                         mix(Rat(1, 20), Rat(4, 5), k)>>
           /\ \A y \in NoiseProbes \cup {call.r[1]} :
                 noise_color(<<call.r[1], y>>, call.awareness) = result.color

\* at awareness 0 the two noise components differ and shade differently, and
\* the colour is the one r.x gives
C19_Witness ==
    /\ call.entry = "fs_main_noise" /\ call.pc = "done"
    /\ call.awareness = Zero
    /\ smoothstep(Rat(-1, 10), Rat(2, 5), call.r[1]) # smoothstep(Rat(-1, 10), Rat(2, 5), call.r[2])
    /\ out[Len(out)].color = noise_color(call.r, Zero)
    /\ out[Len(out)].color # bright_color

---------------------------------------------------------------------------
(* The frame loop.  The host and the simulation are not among the sources: *)
(* they are modelled from the specification (sections 2, 3, 5 and 6).      *)

\* src/neuro_visualizer/src/eeg_shader.wgsl: fs_main
fs_main_direct == [color |-> <<Rat(1, 10), Rat(4, 5), Rat(2, 5)>>, alpha |-> One]

Modes == {"sdf", "direct", "glow"}
VertexEntry(mode) ==
    CASE mode = "sdf" -> "vs_main_table"
      [] mode = "direct" -> "vs_main_direct"
      [] mode = "glow" -> "vs_main_glow"
FragmentEntry(mode) ==
    CASE mode = "sdf" -> "fs_main_sdf"
      [] mode = "direct" -> "fs_main_direct"
      [] mode = "glow" -> "fs_main_glow"

\* the frames of a run, the values the simulation appends, and the fragments
\* the rasteriser covers in a frame
MaxFrames == 2
SimVals == {Zero, One}
FrameFragCoords == {<<Zero, Zero>>, <<R(-1), Half>>}
FramePixels == {<<Rat(1, 2), Rat(1, 2)>>, <<Rat(5, 2), Rat(3, 2)>>}
Fragments(entry) == IF entry = "fs_main_sdf" THEN FrameFragCoords ELSE FramePixels
FrameUnits == { <<>>, << [pos |-> <<Rat(1, 4), Rat(1, 4)>>, state |-> Zero] >> }

InitFrame ==
    /\ FrontendUnmounted
    /\ samples = <<>>
    /\ frame = [phase |-> "idle", index |-> 0, mode |-> "none", len |-> 0, prev_len |-> 0]
    /\ uniforms = [time |-> Zero, resolution_x |-> GlowResolution[1],
                   resolution_y |-> GlowResolution[2], slot |-> 0]
    /\ eeg_data = <<>>
    /\ columns \in FrameUnits
    /\ call = NoCall
    /\ out = <<>>

\* the simulation produces a sample, at its own rate
SimAppend ==
    /\ Len(samples) < MaxN
    /\ \E v \in SimVals : samples' = Append(samples, v)
    /\ UNCHANGED <<uniforms, eeg_data, columns, call, out, frame>>
    /\ UNCHANGED frontendVars

\* the host writes the uniform block and the buffers of the next frame, all
\* before its draw, and selects the mode
Publish ==
    /\ frame.phase = "idle"
    /\ frame.index < MaxFrames
    /\ \E mode \in Modes, a \in {Zero, One} :
          /\ frame' = [phase |-> "drawing", index |-> frame.index + 1, mode |-> mode,
                       len |-> Len(samples), prev_len |-> frame.len]
          /\ eeg_data' = samples
          /\ columns' = [k \in DOMAIN columns |-> [columns[k] EXCEPT !.state = a]]
          /\ uniforms' = [uniforms EXCEPT !.time = R(frame.index + 1), !.slot = Len(columns)]
          /\ call' = [entry |-> VertexEntry(mode), pc |-> "draw"]
          /\ out' = <<>>
    /\ UNCHANGED samples
    /\ UNCHANGED frontendVars

\* the vertex stage is complete: the fragment stage starts on a clear target
BeginFragments ==
    /\ frame.phase = "drawing"
    /\ call.entry = VertexEntry(frame.mode)
    /\ DOMAIN out = (IF frame.mode = "direct" THEN 0..(DrawVertices - 1) ELSE StageVertices)
    /\ call' = [entry |-> FragmentEntry(frame.mode), pc |-> "idle"]
    /\ out' = <<>>
    /\ UNCHANGED <<uniforms, eeg_data, columns, samples, frame>>
    /\ UNCHANGED frontendVars

\* the rasteriser starts the invocation of a fragment not shaded yet
Rasterise ==
    /\ frame.phase = "drawing"
    /\ call.entry \in {"fs_main_sdf", "fs_main_glow"}
    /\ call.pc \in {"idle", "done"}
    /\ \E fc \in Fragments(call.entry) \ DOMAIN out :
          call' = [entry |-> call.entry, pc |-> "start", frag_coord |-> fc]
    /\ UNCHANGED <<uniforms, eeg_data, columns, out, samples, frame>>
    /\ UNCHANGED frontendVars

\* src/neuro_visualizer/src/eeg_shader.wgsl lines 28-31: a fragment of the strip
FsMainDirect ==
    /\ frame.phase = "drawing"
    /\ call.entry = "fs_main_direct"
    /\ \E fc \in FramePixels \ DOMAIN out : out' = (fc :> fs_main_direct) @@ out
    /\ UNCHANGED <<uniforms, eeg_data, columns, call, samples, frame>>
    /\ UNCHANGED frontendVars

\* the frame is complete and is presented
Present ==
    /\ frame.phase = "drawing"
    /\ call.entry = FragmentEntry(frame.mode)
    /\ call.pc \in {"idle", "done"}
    /\ frame.mode # "direct" => DOMAIN out = Fragments(call.entry)
    /\ frame' = [frame EXCEPT !.phase = "idle"]
    /\ call' = NoCall
    /\ UNCHANGED <<uniforms, eeg_data, columns, out, samples>>
    /\ UNCHANGED frontendVars

NextFrame ==
    \/ SimAppend \/ Publish \/ BeginFragments \/ Rasterise \/ Present
    \/ VsMainTable \/ VsMainGlow \/ VsMainDirect \/ FsMainDirect
    \/ FsSdfBegin \/ FsSdfStep \/ FsSdfFinish
    \/ FsGlowBegin \/ FsGlowStep \/ FsGlowFinish
SpecFrame == InitFrame /\ [][NextFrame]_vars

\* C7: in both waveform modes every invocation of a frame reads the live
\* length of the bound waveform buffer, which is the length published for that
\* frame, also when the simulation has appended since and when the buffer grew
\* since the frame before.
C7_LiveLengthEveryInvocation ==
    frame.phase = "drawing" =>
        /\ Len(eeg_data) = frame.len
        /\ (call.entry = "fs_main_sdf" /\ call.pc \in {"loop", "done"}) =>
              call.num_points = U32(frame.len)
        /\ call.entry = "vs_main_direct" =>
              \A i \in DOMAIN out : out[i].num_points = U32(frame.len)

\* a second frame, published after the buffer grew, whose invocations have all
\* run while the simulation appended once more
C7_Witness ==
    /\ frame.phase = "drawing" /\ frame.index = 2
    /\ frame.len > frame.prev_len
    /\ Len(samples) > frame.len
    /\ call.entry = "vs_main_direct"
    /\ DOMAIN out = 0..(DrawVertices - 1)
    /\ \A i \in DOMAIN out : out[i].num_points = U32(frame.len)

\* the frame's state is all a result depends on: each fragment and vertex
\* recomputed from the uniform block and the buffers as they are now
RECURSIVE SdfMinDist(_, _, _)
SdfMinDist(px, k, acc) ==
    IF k > Len(eeg_data) - 2 THEN acc
    ELSE LET o == CHOOSE r \in dist_to_segment(px, SamplePx(k), SamplePx(k + 1)) : TRUE
         IN SdfMinDist(px, k + 1, min(acc, o.ret))

ExpectedSdf(fc) ==
    LET px == VMul(VScale(VAdd(fc, <<One, One>>), Half), Resolution(uniforms))
    IN sdf_shade(SdfMinDist(px, 0, Sentinel))

RECURSIVE GlowSum(_, _)
GlowSum(uv, k) ==
    IF k = 0 THEN background ELSE VAdd3(GlowSum(uv, k - 1), glow_added(uv, columns[k]))

ExpectedGlow(fc) ==
    LET centred == VSub(fc, VScale(Resolution(uniforms), Half))
        uv == <<RQuot(centred[1], uniforms.resolution_y), RQuot(centred[2], uniforms.resolution_y)>>
    IN [color |-> GlowSum(uv, Len(columns)), alpha |-> One]

ResultsFromFrameState ==
    frame.phase = "drawing" =>
        \A id \in DOMAIN out :
            CASE call.entry = "vs_main_table" -> out[id] = vs_main_table(id)
              [] call.entry = "vs_main_glow" -> out[id] = vs_main_glow(id)
              [] call.entry = "vs_main_direct" -> out[id] \in vs_main_direct(eeg_data, U32(id))
              [] call.entry = "fs_main_direct" -> out[id] = fs_main_direct
              [] call.entry = "fs_main_sdf" -> out[id] = ExpectedSdf(id)
              [] call.entry = "fs_main_glow" -> out[id] = ExpectedGlow(id)
              [] OTHER -> FALSE

---------------------------------------------------------------------------
(* The resources each program declares *)

\* src/src/eeg_shader.wgsl lines 2-16
declares_waveform_sdf ==
    { [group |-> 0, binding |-> 0, space |-> "uniform",
       members |-> << <<"time", "f32">>, <<"resolution_x", "f32">>,
                      <<"resolution_y", "f32">>, <<"num_columns", "u32">> >>],
      [group |-> 0, binding |-> 1, space |-> "storage, read",
       members |-> << <<"eeg_data", "array<f32>">> >>] }

\* src/neuro_visualizer/src/eeg_shader.wgsl line 3: the only resource
declares_waveform_direct ==
    { [group |-> 0, binding |-> 1, space |-> "storage, read",
       members |-> << <<"eeg_data", "array<f32>">> >>] }

\* src/src/shader.wgsl lines 18-29
declares_column_glow ==
    { [group |-> 0, binding |-> 0, space |-> "uniform",
       members |-> << <<"time", "f32">>, <<"resolution_x", "f32">>,
                      <<"resolution_y", "f32">>, <<"num_columns", "u32">> >>],
      [group |-> 0, binding |-> 1, space |-> "storage, read",
       members |-> << <<"columns", "array<Column>">> >>] }

\* src/unnamed/part_000 lines 11-19
declares_organic_noise ==
    { [group |-> 0, binding |-> 0, space |-> "uniform",
       members |-> << <<"time", "f32">>, <<"resolution_x", "f32">>,
                      <<"resolution_y", "f32">>, <<"awareness_level", "f32">> >>] }

Programs == {"waveform_sdf", "waveform_direct", "column_glow", "organic_noise"}
Declares(program) ==
    CASE program = "waveform_sdf" -> declares_waveform_sdf
      [] program = "waveform_direct" -> declares_waveform_direct
      [] program = "column_glow" -> declares_column_glow
      [] program = "organic_noise" -> declares_organic_noise

\* the size in bytes of a scalar member
SizeOf(type) == IF type \in {"f32", "u32", "i32"} THEN 4 ELSE 0

\* the block is float time, float resolution_x, float resolution_y and one
\* 4-byte slot, in that order
IsSharedLayout(members) ==
    /\ Len(members) = 4
    /\ members[1] = <<"time", "f32">>
    /\ members[2] = <<"resolution_x", "f32">>
    /\ members[3] = <<"resolution_y", "f32">>
    /\ SizeOf(members[4][2]) = 4
    /\ SizeOf(members[1][2]) + SizeOf(members[2][2]) + SizeOf(members[3][2])
          + SizeOf(members[4][2]) = 16

\* C16: whichever mode a frame is drawn in, the program of every render mode
\* declares at group 0, binding 0 a uniform block laid out as float time,
\* float resolution_x, float resolution_y and one 4-byte slot (16 bytes).
C16_SharedUniformLayout ==
    frame.phase = "drawing" =>
        \A program \in Programs :
            \E decl \in Declares(program) :
                /\ decl.group = 0 /\ decl.binding = 0 /\ decl.space = "uniform"
                /\ IsSharedLayout(decl.members)

---------------------------------------------------------------------------
(* src/neuro_frontend/src/components/AgiInterface.tsx *)

\* A text is the sequence of its characters; " " is white space.  A fixed
\* sentence of the component is a text of one element.
IsSpace(c) == c = " "

RECURSIVE trimStart(_)
trimStart(t) == IF t # <<>> /\ IsSpace(Head(t)) THEN trimStart(Tail(t)) ELSE t
RECURSIVE trimEnd(_)
trimEnd(t) ==
    IF t # <<>> /\ IsSpace(t[Len(t)]) THEN trimEnd(SubSeq(t, 1, Len(t) - 1)) ELSE t
\* String.prototype.trim
trim(t) == trimEnd(trimStart(t))

\* the truth value JavaScript gives a text or an absent value
Truthy(v) == v # <<>> /\ v # "undefined"

Greeting == <<"Connexion etablie. Je suis prete.">>
StatusErrorText == <<"Erreur de connexion au serveur AGI. Veuillez verifier qu'il est bien demarre.">>
NoResponseText == <<"Je n'ai pas de reponse pour le moment.">>
StimulateErrorText == <<"Erreur lors de la stimulation de l'AGI.">>
UnreachableText == <<"Impossible de contacter le serveur pour la stimulation.">>

AgiMessage(text, mode) == [sender |-> "agi", text |-> text, cognitiveMode |-> mode]
UserMessage(text) == [sender |-> "user", text |-> text, cognitiveMode |-> "undefined"]

\* what a fetch settles with: it rejects, or it resolves with a response
\* whose body parses (to an object or to null) or does not parse
StatusBodies ==
    { [parses |-> TRUE, isNull |-> FALSE, status |-> "ok"],
      [parses |-> TRUE, isNull |-> FALSE, status |-> "starting"],
      [parses |-> FALSE, isNull |-> FALSE, status |-> "undefined"] }
StimulateBodies ==
    { [parses |-> TRUE, isNull |-> FALSE, response |-> <<"a", "b">>, cognitive_mode |-> "Precision"],
      [parses |-> TRUE, isNull |-> FALSE, response |-> <<"b">>, cognitive_mode |-> "undefined"],
      [parses |-> TRUE, isNull |-> FALSE, response |-> <<>>, cognitive_mode |-> "Creativity"],
      [parses |-> TRUE, isNull |-> TRUE, response |-> "undefined", cognitive_mode |-> "undefined"],
      [parses |-> FALSE, isNull |-> FALSE, response |-> "undefined", cognitive_mode |-> "undefined"] }
Bodies(url) == IF url = "/api/status" THEN StatusBodies ELSE StimulateBodies

\* the texts typed into the input field, the submit events handled in a run
\* and the requests in flight at a time
InputTexts == {<<>>, <<" ">>, <<"a">>, <<" ", "b">>}
MaxSubmits == 2
MaxInflight == 2

\* line 13-15 and the effect of lines 24-45 up to its first await
InitAgi ==
    /\ PipelineIdle
    /\ status = "loading"
    /\ messages = <<>>
    /\ input = <<>>
    /\ fetches = [inflight |-> {[id |-> 0, url |-> "/api/status", prompt |-> <<>>,
                                 awaiting |-> "fetch", ok |-> FALSE]},
                  settled |-> <<>>]
    /\ submits = 0
    /\ metrics = [type |-> "null"]
    /\ isConnected = FALSE
    /\ ws = [readyState |-> "NONE", mounted |-> FALSE, closeDue |-> FALSE, events |-> <<>>]
    /\ rendered = [kind |-> "nothing"]

NoBody == [parses |-> FALSE, isNull |-> FALSE]

\* the request leaves the requests in flight; the history keeps what it
\* settled with and the messages its handler appended
Settle(req, how, body, appended) ==
    [inflight |-> fetches.inflight \ {req},
     settled |-> Append(fetches.settled,
                        [id |-> req.id, url |-> req.url, how |-> how, body |-> body,
                         appended |-> appended])]

\* line 112: onChange of the input field
OnChange ==
    /\ \E v \in InputTexts : input' = v
    /\ UNCHANGED <<status, messages, fetches, submits>>
    /\ UNCHANGED <<pipelineVars, metricsVars>>

\* a fetch resolves with a response: lines 27-28 and 36-38, lines 56-62 and
\* 70-73.  With response.ok the function goes on to await response.json()
FetchResolves ==
    /\ \E req \in fetches.inflight, ok \in BOOLEAN :
          /\ req.awaiting = "fetch"
          /\ IF ok
             THEN /\ fetches' = [fetches EXCEPT !.inflight =
                                    (@ \ {req}) \cup {[req EXCEPT !.awaiting = "json", !.ok = TRUE]}]
                  /\ UNCHANGED <<status, messages>>
             ELSE IF req.url = "/api/status"
             THEN /\ status' = "offline"
                  /\ fetches' = Settle(req, "not ok", NoBody, <<>>)
                  /\ UNCHANGED messages
             ELSE /\ messages' = Append(messages, AgiMessage(StimulateErrorText, "undefined"))
                  /\ fetches' = Settle(req, "not ok", NoBody,
                                       <<AgiMessage(StimulateErrorText, "undefined")>>)
                  /\ UNCHANGED status
    /\ UNCHANGED <<input, submits>>
    /\ UNCHANGED <<pipelineVars, metricsVars>>

\* a fetch rejects: the catch of lines 39-42 and of lines 74-77
FetchRejects ==
    /\ \E req \in fetches.inflight :
          /\ req.awaiting = "fetch"
          /\ IF req.url = "/api/status"
             THEN /\ status' = "offline"
                  /\ messages' = <<AgiMessage(StatusErrorText, "undefined")>>
                  /\ fetches' = Settle(req, "rejected", NoBody, <<>>)
             ELSE /\ messages' = Append(messages, AgiMessage(UnreachableText, "undefined"))
                  /\ fetches' = Settle(req, "rejected", NoBody,
                                       <<AgiMessage(UnreachableText, "undefined")>>)
                  /\ UNCHANGED status
    /\ UNCHANGED <<input, submits>>
    /\ UNCHANGED <<pipelineVars, metricsVars>>

\* checkStatus with the branch of line 30 turned round
checkStatus_json_inverted(body) ==
    IF ~body.parses
    THEN [status |-> "offline", messages |-> <<AgiMessage(StatusErrorText, "undefined")>>, set |-> TRUE]
    ELSE IF body.status # "ok"
    THEN [status |-> "online", messages |-> <<AgiMessage(Greeting, "undefined")>>, set |-> TRUE]
    ELSE [status |-> "offline", messages |-> <<>>, set |-> FALSE]

\* lines 29-35 and the catch of 39-42: what checkStatus does with the body
\* of an ok response (set: it calls setMessages)
checkStatus_json(body) ==
    IF ~body.parses
    THEN [status |-> "offline", messages |-> <<AgiMessage(StatusErrorText, "undefined")>>, set |-> TRUE]
    ELSE IF body.status = "ok"
    THEN [status |-> "online", messages |-> <<AgiMessage(Greeting, "undefined")>>, set |-> TRUE]
    ELSE [status |-> "offline", messages |-> <<>>, set |-> FALSE]

\* handleSubmit appending the reply of an ok response twice
handleSubmit_json_twice(body) ==
    IF ~body.parses \/ body.isNull
    THEN <<AgiMessage(UnreachableText, "undefined")>>
    ELSE <<AgiMessage(IF Truthy(body.response) THEN body.response ELSE NoResponseText,
                      body.cognitive_mode),
           AgiMessage(IF Truthy(body.response) THEN body.response ELSE NoResponseText,
                      body.cognitive_mode)>>

\* lines 63-69 and the catch of 74-77: the messages handleSubmit appends for
\* the body of an ok response
handleSubmit_json(body) ==
    IF ~body.parses \/ body.isNull
    THEN <<AgiMessage(UnreachableText, "undefined")>>
    ELSE <<AgiMessage(IF Truthy(body.response) THEN body.response ELSE NoResponseText,
                      body.cognitive_mode)>>

\* response.json() settles.  The two state updates of checkStatus are applied
\* in one render
JsonSettles ==
    /\ \E req \in fetches.inflight :
          /\ req.awaiting = "json"
          /\ \E body \in Bodies(req.url) :
                IF req.url = "/api/status"
                THEN LET r == checkStatus_json(body)
                     IN /\ status' = r.status
                        /\ messages' = (IF r.set THEN r.messages ELSE messages)
                        /\ fetches' = Settle(req, "ok", body, <<>>)
                ELSE /\ messages' = messages \o handleSubmit_json(body)
                     /\ fetches' = Settle(req, "ok", body, handleSubmit_json(body))
                     /\ UNCHANGED status
    /\ UNCHANGED <<input, submits>>
    /\ UNCHANGED <<pipelineVars, metricsVars>>

\* line 49: the submit is accepted
handleSubmit_accepts(text, st) == trim(text) # <<>> /\ st = "online"

\* lines 47-60: handleSubmit up to its await
HandleSubmit ==
    /\ submits < MaxSubmits
    /\ submits' = submits + 1
    /\ IF handleSubmit_accepts(input, status) /\ Cardinality(fetches.inflight) < MaxInflight
       THEN /\ messages' = Append(messages, UserMessage(input))
            /\ input' = <<>>
            /\ fetches' = [fetches EXCEPT !.inflight =
                              @ \cup {[id |-> submits + 1, url |-> "/api/stimulate",
                                       prompt |-> input, awaiting |-> "fetch", ok |-> FALSE]}]
       ELSE /\ ~handleSubmit_accepts(input, status)
            /\ UNCHANGED <<messages, input, fetches>>
    /\ UNCHANGED status
    /\ UNCHANGED <<pipelineVars, metricsVars>>

NextAgi == OnChange \/ HandleSubmit \/ FetchResolves \/ FetchRejects \/ JsonSettles
SpecAgi == InitAgi /\ [][NextAgi]_vars

\* the request settled by the step, if the step settles one
JustSettled == fetches'.settled[Len(fetches'.settled)]
Settles == Len(fetches'.settled) = Len(fetches.settled) + 1

\* C21: status starts as 'loading' and changes at most once, when the request
\* to /api/status settles: to 'online' only when the response is ok and its
\* body has status 'ok', otherwise to 'offline'; no later event changes it.
\* Whenever status is 'online' the first message is the greeting.  While
\* status is 'loading' or 'offline' handleSubmit leaves messages and input
\* unchanged and sends no request.
C21_StatusSetOnce ==
    /\ status = "loading"
    /\ [](status = "online" => (messages # <<>> /\ messages[1] = AgiMessage(Greeting, "undefined")))
    /\ [](status = "loading" <=> \E req \in fetches.inflight : req.url = "/api/status")
    /\ [][ /\ status # "loading" => status' = status
           /\ status' # status =>
                 /\ Settles /\ JustSettled.url = "/api/status"
                 /\ status' \in {"online", "offline"}
                 /\ status' = "online" <=>
                       (JustSettled.how = "ok" /\ JustSettled.body.parses
                          /\ ~JustSettled.body.isNull /\ JustSettled.body.status = "ok")
           /\ (submits' = submits + 1 /\ status \in {"loading", "offline"}) =>
                 UNCHANGED <<messages, input, fetches, status>> ]_vars

\* the server was not ready; handleSubmit has then been called twice on a
\* typed text, to no effect
C21_Witness ==
    /\ status = "offline"
    /\ Len(fetches.settled) = 1
    /\ fetches.settled[1].how = "ok" /\ fetches.settled[1].body.parses
    /\ submits = 2
    /\ input = <<"a">>
    /\ messages = <<>>
    /\ fetches.inflight = {}

RECURSIVE SelectSender(_, _)
\* the messages of q sent by sender, in order
SelectSender(q, sender) ==
    IF q = <<>> THEN <<>>
    ELSE IF Head(q).sender = sender THEN <<Head(q)>> \o SelectSender(Tail(q), sender)
    ELSE SelectSender(Tail(q), sender)

RECURSIVE Replies(_)
\* the messages the settled requests appended, in the order they settled
Replies(h) == IF h = <<>> THEN <<>> ELSE h[1].appended \o Replies(Tail(h))

Stimulating == { req \in fetches.inflight : req.url = "/api/stimulate" }

\* C22: once online the message list is append-only; every accepted submit
\* (status online, input not blank) appends exactly one user message at once
\* and, when its request settles (success, HTTP error or network failure),
\* exactly one AGI message; the AGI replies after the greeting are never more
\* than the user messages and as many once every request has settled; the
\* replies stand in the order the requests settled.
C22_AppendOnlyLog ==
    /\ [](status = "online" =>
            LET users == SelectSender(messages, "user")
                agis == SelectSender(Tail(messages), "agi")
            IN /\ Len(agis) <= Len(users)
               /\ Len(users) - Len(agis) = Cardinality(Stimulating)
               /\ Stimulating = {} => Len(agis) = Len(users)
               /\ agis = Replies(fetches.settled))
    /\ [][ status = "online" =>
             /\ Len(messages') >= Len(messages)
             /\ SubSeq(messages', 1, Len(messages)) = messages
             /\ (submits' = submits + 1 /\ trim(input) # <<>>) =>
                   /\ messages' = Append(messages, UserMessage(input))
                   /\ Cardinality(fetches'.inflight) = Cardinality(fetches.inflight) + 1
             /\ (submits' = submits + 1 /\ trim(input) = <<>>) => messages' = messages
             /\ Settles =>
                   /\ Len(messages') = Len(messages) + 1
                   /\ messages'[Len(messages')].sender = "agi"
                   /\ JustSettled.how = "not ok" =>
                         messages'[Len(messages')].text = StimulateErrorText
                   /\ JustSettled.how = "rejected" =>
                         messages'[Len(messages')].text = UnreachableText ]_vars

\* two requests overlapped and the later one settled first; both are answered
C22_Witness ==
    /\ status = "online"
    /\ fetches.inflight = {}
    /\ Len(fetches.settled) = 3
    /\ fetches.settled[2].id > fetches.settled[3].id
    /\ fetches.settled[2].how = "ok" /\ fetches.settled[3].how = "rejected"
    /\ Len(messages) = 5
    /\ messages[2].sender = "user" /\ messages[3].sender = "user"
    /\ messages[4].sender = "agi" /\ messages[5].text = UnreachableText

---------------------------------------------------------------------------
(* src/unnamed/part_002: MetricsDisplay *)

JsonNull == [type |-> "null", tps |-> 0, complete |-> FALSE]
JsonNumber(n) == [type |-> "number", tps |-> n, complete |-> FALSE]
\* an object; complete: it has every field of Metrics, a number each
JsonObject(tps, complete) == [type |-> "object", tps |-> tps, complete |-> complete]

\* JSON.parse on the texts the socket delivers in the model: the value, or
\* the SyntaxError thrown
JSONParse(text) ==
    CASE text = "{\"tps\":1,...}" -> [throws |-> FALSE, value |-> JsonObject(1, TRUE)]
      [] text = "{\"tps\":2,...}" -> [throws |-> FALSE, value |-> JsonObject(2, TRUE)]
      [] text = "{}" -> [throws |-> FALSE, value |-> JsonObject(0, FALSE)]
      [] text = "null" -> [throws |-> FALSE, value |-> JsonNull]
      [] text = "0" -> [throws |-> FALSE, value |-> JsonNumber(0)]
      [] text = "{\"tps\":" -> [throws |-> TRUE, value |-> JsonNull]
      [] text = "" -> [throws |-> TRUE, value |-> JsonNull]

EventData == {"{\"tps\":1,...}", "{\"tps\":2,...}", "{}", "null", "0", "{\"tps\":", ""}

\* the truth value JavaScript gives a JSON value
TruthyJson(v) ==
    CASE v.type = "null" -> FALSE
      [] v.type = "number" -> v.tps # 0
      [] v.type = "object" -> TRUE

\* the render showing the metrics whenever there are some
Render_ignores_connection(m, connected) ==
    IF TruthyJson(m)
    THEN IF m.complete THEN [kind |-> "values", of |-> m]
         ELSE [kind |-> "throws", of |-> m]
    ELSE [kind |-> "placeholder", of |-> JsonNull]

\* lines 86-96: what the component returns; reading a field an object lacks
\* gives undefined, and toFixed on it throws
Render(m, connected) ==
    IF connected /\ TruthyJson(m)
    THEN IF m.complete THEN [kind |-> "values", of |-> m]
         ELSE [kind |-> "throws", of |-> m]
    ELSE [kind |-> "placeholder", of |-> JsonNull]

\* the events the socket delivers in a run
MaxEvents == 4

\* lines 21-25 and the first render: the effect has created the socket
InitMetrics ==
    /\ PipelineIdle
    /\ status = "loading"
    /\ messages = <<>>
    /\ input = <<>>
    /\ fetches = [inflight |-> {}, settled |-> <<>>]
    /\ submits = 0
    /\ metrics = JsonNull
    /\ isConnected = FALSE
    /\ ws = [readyState |-> "CONNECTING", mounted |-> TRUE, closeDue |-> FALSE, events |-> <<>>]
    /\ rendered = Render(JsonNull, FALSE)

\* the component renders with the new state; a render that throws unmounts
\* it, and the cleanup of lines 52-54 closes the socket
Rerender(m, connected, socket) ==
    IF ~socket.mounted
    THEN /\ rendered' = rendered
         /\ ws' = socket
    ELSE IF Render(m, connected).kind = "throws"
    THEN /\ rendered' = [kind |-> "nothing", of |-> JsonNull]
         /\ ws' = [socket EXCEPT !.mounted = FALSE,
                                 !.readyState = IF @ \in {"CONNECTING", "OPEN"} THEN "CLOSING" ELSE @]
    ELSE /\ rendered' = Render(m, connected)
         /\ ws' = socket

\* an update of the state of a component that is unmounted is dropped
SetState(m, connected) ==
    IF ws.mounted
    THEN metrics' = m /\ isConnected' = connected
    ELSE UNCHANGED <<metrics, isConnected>>

Delivered(socket, type, data) ==
    [socket EXCEPT !.events = Append(@, [type |-> type, data |-> data])]

\* lines 27-30: the connection is established
OnOpen ==
    /\ Len(ws.events) < MaxEvents
    /\ ws.readyState = "CONNECTING"
    /\ SetState(metrics, TRUE)
    /\ Rerender(metrics', isConnected', Delivered([ws EXCEPT !.readyState = "OPEN"], "open", ""))
    /\ UNCHANGED <<pipelineVars, agiVars>>

\* lines 32-39: the state after a message
onmessage(data, m, connected) ==
    IF JSONParse(data).throws
    THEN [metrics |-> m, isConnected |-> connected]
    ELSE [metrics |-> JSONParse(data).value, isConnected |-> connected]

\* a message arrives on the open socket
OnMessage ==
    /\ Len(ws.events) < MaxEvents
    /\ ws.readyState = "OPEN"
    /\ \E data \in EventData :
          LET after == onmessage(data, metrics, isConnected)
          IN /\ SetState(after.metrics, after.isConnected)
             /\ Rerender(metrics', isConnected', Delivered(ws, "message", data))
    /\ UNCHANGED <<pipelineVars, agiVars>>

\* lines 46-49: the connection fails; the close event is to follow
OnError ==
    /\ Len(ws.events) < MaxEvents
    /\ ws.readyState \in {"CONNECTING", "OPEN", "CLOSING"}
    /\ SetState(metrics, FALSE)
    /\ Rerender(metrics', isConnected',
                Delivered([ws EXCEPT !.readyState = "CLOSED", !.closeDue = TRUE], "error", ""))
    /\ UNCHANGED <<pipelineVars, agiVars>>

\* lines 41-44
onclose(connected) == FALSE

\* the connection is closed, by the server, after ws.close() or after an error
OnClose ==
    /\ Len(ws.events) < MaxEvents
    /\ ws.closeDue \/ ws.readyState \in {"OPEN", "CLOSING"}
    /\ SetState(metrics, onclose(isConnected))
    /\ Rerender(metrics', isConnected',
                Delivered([ws EXCEPT !.readyState = "CLOSED", !.closeDue = FALSE], "close", ""))
    /\ UNCHANGED <<pipelineVars, agiVars>>

\* lines 52-54: the component unmounts and the cleanup closes the socket
Unmount ==
    /\ ws.mounted
    /\ ws' = [ws EXCEPT !.mounted = FALSE,
                        !.readyState = IF @ \in {"CONNECTING", "OPEN"} THEN "CLOSING" ELSE @]
    /\ rendered' = [kind |-> "nothing", of |-> JsonNull]
    /\ UNCHANGED <<metrics, isConnected>>
    /\ UNCHANGED <<pipelineVars, agiVars>>

NextMetrics == OnOpen \/ OnMessage \/ OnError \/ OnClose \/ Unmount
SpecMetrics == InitMetrics /\ [][NextMetrics]_vars

\* an open event has occurred and no close or error event since
OpenSince ==
    \E i \in 1..Len(ws.events) :
        /\ ws.events[i].type = "open"
        /\ \A k \in (i + 1)..Len(ws.events) : ws.events[k].type \notin {"close", "error"}

\* a close or error event has occurred
Disconnected == \E i \in 1..Len(ws.events) : ws.events[i].type \in {"close", "error"}

\* the event the step delivers, if it delivers one
Delivers == Len(ws'.events) = Len(ws.events) + 1
JustDelivered == ws'.events[Len(ws'.events)]

\* C23: under the events of the socket (open, message, close, error), while
\* the component is mounted, isConnected is true exactly when an open event
\* has occurred and no close or error event since; a message that fails JSON
\* parsing leaves metrics and isConnected unchanged; the metric values are
\* rendered only when isConnected is true and metrics is not null, otherwise
\* the placeholder is shown; metrics received before a disconnect are never
\* rendered after it.
C23_MetricsShownWhileConnected ==
    /\ [](ws.mounted =>
            /\ isConnected <=> OpenSince
            /\ rendered.kind \in {"values", "placeholder"}
            /\ rendered.kind = "values" =>
                  (isConnected /\ metrics.type # "null" /\ rendered.of = metrics)
            /\ ~(isConnected /\ metrics.type # "null") => rendered.kind = "placeholder")
    /\ [](Disconnected => rendered.kind # "values")
    /\ [](~ws.mounted => rendered.kind = "nothing")
    /\ [][ (Delivers /\ JustDelivered.type = "message" /\ JSONParse(JustDelivered.data).throws) =>
              /\ UNCHANGED <<metrics, isConnected>>
              /\ ws'.mounted = ws.mounted
              /\ rendered' = rendered ]_vars

\* metrics were received and shown, then the connection was closed: the
\* component holds them and shows the placeholder
C23_Witness ==
    /\ ws.mounted
    /\ Len(ws.events) = 4
    /\ ws.events[1].type = "open"
    /\ ws.events[2] = [type |-> "message", data |-> "{\"tps\":1,...}"]
    /\ ws.events[3] = [type |-> "message", data |-> "{\"tps\":"]
    /\ ws.events[4].type = "close"
    /\ metrics = JsonObject(1, TRUE)
    /\ ~isConnected
    /\ rendered.kind = "placeholder"

===========================================================================
